---- MODULE Spec2Model ----
(***************************************************************************)
(* versaDeploy: the release coordinator (Deployer.Deploy, Deployer.Rollback)*)
(* and the remote session primitives it drives (ssh.Client), as a state    *)
(* machine over the remote layout of ONE environment:                      *)
(*     remote_path/releases/<ver>[.staging]   release directories           *)
(*     remote_path/current, current.tmp       symlinks                      *)
(*     remote_path/deploy.lock                last DeployLock                *)
(*     remote_path/.versa.lock/               distributed lock directory     *)
(*     remote_path/<ver>.tar.gz[.NNN]         uploaded archive and chunks    *)
(* Two command invocations (Procs) run against it, each one remote         *)
(* round trip at a time.                                                   *)
(*                                                                         *)
(* Release directory names are encoded as integers that keep the string    *)
(* order of the names: version v (a "YYYYMMDD-HHMMSS" timestamp, here the  *)
(* v-th tick of the clock) is 2*v, and "<v>.staging" is 2*v+1, since       *)
(* "<v>" < "<v>.staging" < "<v+1>" in byte order.                          *)
(***************************************************************************)
EXTENDS Integers, Sequences, FiniteSets, TLC

\* ---------------------------------------------------------------- bounds
\* number of release versions the clock can hand out
MaxVer == 3

\* number of commands started in a behaviour in which commands overlap
MaxRuns == 3

\* number of release versions deployed before the behaviour starts (SpecSeeded)
MaxOld == 5

\* number of commands started on a remote that already holds releases
MaxSeededRuns == 2

\* number of paths a lock's file-hash map can hold
MaxPaths == 2

\* number of files in a snapshot the detector is run on
MaxFiles == 2

\* largest chunkSize, in bytes, the chunk writer is given
MaxChunk == 3

\* largest number of bytes in one Write to the chunk writer
MaxWrite == 3

\* largest number of bytes written to one chunk writer
MaxStream == 5

\* largest concurrency UploadFilesParallel is called with
MaxConc == 2

\* largest number of local paths UploadFilesParallel is given
MaxJobs == 3

\* largest number of entries in an engine's reusable_paths
MaxReusable == 2

\* largest runtime.NumCPU() the hashing pool is run on
MaxCPU == 2

\* ------------------------------------------------------- program constants
\* const ReleasesToKeep = 5
ReleasesToKeep == 5

\* UploadFilesParallel: if concurrency <= 0 { concurrency = 3 }
DefaultConcurrency == 3

\* NewClient: maxRetries := 3
maxRetries == 3

\* ------------------------------------------------------------- the setting
Procs == {1, 2}

\* source snapshots a command can be started on (content fingerprints); two
\* of them differ in a file added or modified, which is what the detector
\* compares (a snapshot that only lost files is told apart in SpecDetect)
SrcSet == {"s1", "s2"}

\* env.PostDeploy: one single command followed by one parallel group of two;
\* each entry is the number of hook commands it runs (1 = hookConfig.Command)
PostDeploy == <<1, 2>>

\* goroutines of the largest hook group
HookIds == {1, 2}

Versions == 1..MaxVer

\* versions of the deploys that ran before the behaviour starts: earlier
\* timestamps, so smaller names
OldVersions == (0 - MaxOld)..(0 - 1)

Final(v) == 2 * v
Staging(v) == 2 * v + 1
Names == {Final(v) : v \in Versions \cup OldVersions}
            \cup {Staging(v) : v \in Versions \cup OldVersions}
IsStaging(n) == n % 2 = 1

\* A symlink target: <RemotePath>/releases/<name><sub> ("abs") or
\* releases/<name><sub> ("rel"); sub is the path below the release directory
\* ("" for the directory itself, "/app" for its app subtree).
NoLink == [form |-> "none", name |-> 0, sub |-> ""]
AbsLink(n) == [form |-> "abs", name |-> n, sub |-> ""]
RelLink(n) == [form |-> "rel", name |-> n, sub |-> ""]

NoLock == [rel |-> 0, fp |-> "none"]

VARIABLES
    lockDir,      \* .versa.lock exists
    rel,          \* releases/: name -> "absent" | "partial" | "full"
    current,      \* the symlink remote_path/current
    currentTmp,   \* the symlink remote_path/current.tmp
    deployLock,   \* remote deploy.lock: NoLock when absent
    files,        \* remote_path/<ver>.tar.gz and .NNN: set of <<kind, ver>>
    clock,        \* last release version generated
    pc,           \* per command: position
    cmd,          \* per command: "none" | "deploy" | "rollback"
    flags,        \* per command: [initialDeploy, force, dryRun]
    src,          \* per command: fingerprint of the snapshot
    cs,           \* per deploy: the ChangeSet of Step 7, until the build has used it
    previousLock, \* per deploy: the parsed deploy.lock, NoLock when nil
    ver,          \* per deploy: releaseVersion (0 before Step 8)
    hookIdx,      \* per deploy: index into PostDeploy
    hpc,          \* per deploy: position of each runHook call of the group
    target,       \* per rollback: the link CreateSymlink was called with
    seen,         \* per rollback: currentTarget as read, releases as listed
    result,       \* per command: what the last run returned
    warned,       \* per deploy: the non-fatal errors the run has logged
    touched,      \* history: remote paths the run has created/changed/deleted
    startCur,     \* history: current when the run started
    held,         \* history: the run acquired .versa.lock and has not released it
    runs          \* history: commands started so far (counted when they may overlap)

\* Two environments deployed to from one machine: each has its own
\* remote_path (its own deploy.lock, current, .versa.lock), the machine has
\* one os.TempDir().
VARIABLES
    envLock,      \* per environment: its remote deploy.lock
    envCur,       \* per environment: the release its current resolves to, 0 = none
    tmpLockFile,  \* local file os.TempDir()/deploy.lock
    lockUpload,   \* local file os.TempDir()/lockupload/deploy.lock
    deferred      \* per deploy: the local paths its deferred removals name

deployVars == <<lockDir, rel, current, currentTmp, deployLock, files, clock, pc, cmd,
                flags, src, cs, previousLock, ver, hookIdx, hpc, target, seen, result,
                warned, touched, startCur, held, runs>>

envVars == <<envLock, envCur, tmpLockFile, lockUpload, deferred>>

\* state.DeployLock.ToJSON and state.Parse on one lock
VARIABLES
    lock,         \* the DeployLock handed to ToJSON
    lockData,     \* the bytes of deploy.lock
    parsed,       \* what state.Parse returned
    cpc           \* "new" | "written" | "parsed"

codecVars == <<lock, lockData, parsed, cpc>>

\* changeset.Detector.Detect on one snapshot
VARIABLES
    repo,          \* the snapshot: file -> content hash
    ignoredPaths,  \* Detector.ignoredPaths
    detPrev,       \* Detector.previousLock: its file-hash map, nil when no lock
    filesToHash,   \* the files the walk collected
    allFileHashes, \* cs.AllFileHashes so far
    buckets,       \* cs.PHPFiles, TwigFiles, GoFiles, FrontendFiles, OtherFiles
    dpc            \* "walk" | "collect" | "done" | "error"

detVars == <<repo, ignoredPaths, detPrev, filesToHash, allFileHashes, buckets, dpc>>

\* artifact.chunkWriter under a sequence of Writes
VARIABLES
    cw,            \* the chunkWriter: chunkSize, current (0 = nil), currentID, totalSize
    chunkFiles,    \* the files basePath.001, .002, ...: the bytes of each
    written        \* history: the bytes the Writes reported as written, in order

chunkVars == <<cw, chunkFiles, written>>

\* ssh.Client.UploadFilesParallel on one list of local paths
VARIABLES
    upConc,        \* concurrency after the <= 0 test
    upJobs,        \* the jobs channel: the jobs not yet received, in order
    wpc,           \* per worker: "off" | "idle" | "busy" | "nil" | "err"
    wjob,          \* per worker: the job it is uploading, 0 = none
    uploaded,      \* history: per local path, the transfers that completed
    upFailed,      \* history: the local paths a transfer of which failed
    upRet          \* "off" | "start" | "running" | "nil" | "error"

upVars == <<upConc, upJobs, wpc, wjob, uploaded, upFailed, upRet>>

\* Deployer.reuseDependencies for one engine
VARIABLES
    ru,            \* the engine, Enabled, the manifest's hash in the snapshot and
                   \* in the lock, previousVersion, and the paths to go through
    oldRel,        \* releases/<previousVersion>/app/<root>: path -> "absent" | "there"
    newRel,        \* finalDir/app/<root>: path -> "absent" | "built" | "copied"
    rui            \* the paths gone through so far; -1 when nothing is reused

reuseVars == <<ru, oldRel, newRel, rui>>

\* the worker pool of Detector.Detect; the snapshot, the previous lock, the
\* files to hash and the ChangeSet are the detector's variables
VARIABLES
    numWorkers,    \* the goroutines started
    unreadable,    \* the files hashFile fails on
    sent,          \* the files the send loop has put on jobs
    jobs,          \* the jobs channel: files not yet received, in order
    jobsClosed,    \* close(jobs) has been called
    results,       \* the results channel: hashResults not yet received, in order
    resultsClosed, \* close(results) has been called
    hwpc,          \* per worker: "off" | "range" | "hash" | "done"
    hwfile,        \* per worker: the file it is hashing
    hashCount      \* history: per file, the calls of hashFile on it

poolVars == <<numWorkers, unreadable, sent, jobs, jobsClosed, results, resultsClosed,
              hwpc, hwfile, hashCount>>

\* ssh.NewClient on one configuration
VARIABLES
    cfg,           \* UseSSHAgent, KeyPath set, and what the machine holds: an
                   \* agent socket that answers, a key file that reads and parses
    authMethods,   \* len(authMethods)
    attempt,       \* the loop variable of the retry loop
    dials,         \* history: the outcome of every ssh.Dial, in order
    slept,         \* history: the seconds of every time.Sleep, in order
    npc,           \* "auth" | "dial" | "sleep" | "sftp" | "done"
    connResult     \* "none" | "connected" | the error NewClient returned

connVars == <<cfg, authMethods, attempt, dials, slept, npc, connResult>>

\* the host a command connects to
VARIABLES
    remotePath     \* the directory env.RemotePath exists on the remote

hostVars == <<remotePath>>

\* the functions checked on their own, and the host
pureVars == <<codecVars, detVars, chunkVars, hostVars, upVars, reuseVars, poolVars, connVars>>

\* what does not belong to the deploys of one environment
auxVars == <<envVars, pureVars>>

vars == <<deployVars, auxVars>>

remoteVars == <<lockDir, rel, current, currentTmp, deployLock, files>>
localVars == <<flags, src, cs, previousLock, ver, hookIdx, hpc, target, seen>>

NoSeen == [cur |-> NoLink, listed |-> FALSE, list |-> {}]
NoFlags == [initialDeploy |-> FALSE, force |-> FALSE, dryRun |-> FALSE]

\* the ChangeSet: whether any bucket or dependency flag is set, and Force
NoCs == [changed |-> FALSE, Force |-> FALSE]

\* a local file that does not exist
NoFile == [rel |-> 0, fp |-> "absent"]

\* one environment only: nothing of a second one
EnvRest ==
    /\ envLock = [e \in Procs |-> NoLock]
    /\ envCur = [e \in Procs |-> 0]
    /\ tmpLockFile = NoFile
    /\ lockUpload = NoFile
    /\ deferred = [p \in Procs |-> {}]

\* no lock is being converted
CodecRest ==
    /\ lock = NoLock
    /\ lockData = NoLock
    /\ parsed = NoLock
    /\ cpc = "off"

\* no snapshot is being looked at
DetRest ==
    /\ repo = << >>
    /\ ignoredPaths = {}
    /\ detPrev = [nil |-> TRUE, m |-> << >>]
    /\ filesToHash = {}
    /\ allFileHashes = << >>
    /\ buckets = << >>
    /\ dpc = "off"

\* no archive is being split
ChunkRest ==
    /\ cw = [chunkSize |-> 0, current |-> 0, currentID |-> 0, totalSize |-> 0,
             err |-> FALSE, closed |-> FALSE]
    /\ chunkFiles = << >>
    /\ written = << >>

\* nothing is being uploaded in parallel
UpRest ==
    /\ upConc = 0
    /\ upJobs = << >>
    /\ wpc = << >>
    /\ wjob = << >>
    /\ uploaded = << >>
    /\ upFailed = {}
    /\ upRet = "off"

\* no dependencies are being reused
ReuseRest ==
    /\ ru = << >>
    /\ oldRel = << >>
    /\ newRel = << >>
    /\ rui = -1

\* no hashing pool is running
PoolRest ==
    /\ numWorkers = 0
    /\ unreadable = {}
    /\ sent = {}
    /\ jobs = << >>
    /\ jobsClosed = FALSE
    /\ results = << >>
    /\ resultsClosed = FALSE
    /\ hwpc = << >>
    /\ hwfile = << >>
    /\ hashCount = << >>

\* no connection is being made
ConnRest ==
    /\ cfg = << >>
    /\ authMethods = 0
    /\ attempt = 0
    /\ dials = << >>
    /\ slept = << >>
    /\ npc = "off"
    /\ connResult = "none"

\* a host that has been set up: the remote path is there
HostRest == remotePath = TRUE

PureRest == CodecRest /\ DetRest /\ ChunkRest /\ HostRest /\ UpRest /\ ReuseRest /\ PoolRest /\ ConnRest

AuxRest == EnvRest /\ PureRest

\* the deployer before any command, on an empty remote
DeployRest ==
    /\ lockDir = FALSE
    /\ rel = [n \in Names |-> "absent"]
    /\ current = NoLink
    /\ currentTmp = NoLink
    /\ deployLock = NoLock
    /\ files = {}
    /\ clock = 0
    /\ pc = [p \in Procs |-> "idle"]
    /\ cmd = [p \in Procs |-> "none"]
    /\ flags = [p \in Procs |-> NoFlags]
    /\ src = [p \in Procs |-> "s1"]
    /\ cs = [p \in Procs |-> NoCs]
    /\ previousLock = [p \in Procs |-> NoLock]
    /\ ver = [p \in Procs |-> 0]
    /\ hookIdx = [p \in Procs |-> 0]
    /\ hpc = [p \in Procs |-> [h \in HookIds |-> "off"]]
    /\ target = [p \in Procs |-> NoLink]
    /\ seen = [p \in Procs |-> NoSeen]
    /\ result = [p \in Procs |-> "none"]
    /\ warned = [p \in Procs |-> {}]
    /\ touched = [p \in Procs |-> {}]
    /\ startCur = [p \in Procs |-> NoLink]
    /\ held = [p \in Procs |-> FALSE]
    /\ runs = 0

Init == DeployRest /\ AuxRest

\* ------------------------------------------------------------ pure helpers

\* the release directory a link resolves to, 0 when it resolves to nothing
Resolve(l) == IF l.form # "none" /\ rel[l.name] # "absent" THEN l.name ELSE 0

\* Client.ListReleases: every directory entry of releases/
ListReleases == {n \in Names : rel[n] # "absent"}

\* state.SortReleases: descending order of names; the sorted list as the
\* sequence whose i-th element has exactly i-1 greater elements
SortReleases(S) ==
    [i \in 1..Cardinality(S) |->
        CHOOSE n \in S : Cardinality({m \in S : m > n}) = i - 1]

\* mutant: every snapshot counts as changed
HasChangesAlways(prev, s) == TRUE

\* ChangeSet.HasChanges after Detector.Detect against previousLock
HasChanges(prev, s) == prev = NoLock \/ prev.fp # s

\* mutant: with Force the detector reports every file as changed
ChangeSetForced(prev, s, force) == [changed |-> HasChanges(prev, s) \/ force, Force |-> force]

\* what Deploy hands to the builder: the ChangeSet of Detector.Detect, which
\* compares the snapshot with previousLock, and then cs.Force = d.force
ChangeSet(prev, s, force) == [changed |-> HasChanges(prev, s), Force |-> force]

\* CreateSymlink step 3: strings.HasSuffix(actualTarget, target) || equal.
\* An absolute actual target ends with the relative one of the same name;
\* a relative actual target never ends with an absolute one.
VerifyOk(actual, want) ==
    /\ actual.form # "none"
    /\ actual.name = want.name
    /\ actual.sub = want.sub
    /\ (actual.form = want.form \/ want.form = "rel")

\* ------------------------------------------------------- shared shorthands

\* mutant: the hook-failure return leaves without the deferred release
RetNoDefer(p, r) ==
    /\ pc' = [pc EXCEPT ![p] = IF r = "hook_failed" THEN "done" ELSE "unlock"]
    /\ result' = [result EXCEPT ![p] = r]

\* the run returns r: the deferred ReleaseLock is still to run
Ret(p, r) ==
    /\ pc' = [pc EXCEPT ![p] = "unlock"]
    /\ result' = [result EXCEPT ![p] = r]

Goto(p, l) == pc' = [pc EXCEPT ![p] = l] /\ UNCHANGED result

Touch(p, S) == touched' = [touched EXCEPT ![p] = @ \cup S]

ArchiveOf(v) == <<"archive", v>>

\* the chunk files <archive>.001, ... CompressChunked cuts the archive into
Chunks == {1, 2}
ChunkOf(v, i) == <<"chunk", v, i>>
ChunksOf(v) == {ChunkOf(v, i) : i \in Chunks}

\* what a failed transfer of chunk i left of it
PartOf(v, i) == <<"part", v, i>>
PartsOf(v) == {PartOf(v, i) : i \in Chunks}

\* ------------------------------------------------------------ Deployer.Deploy

\* Steps 0-5 (local tool check, git clone, ssh connect) have succeeded. The
\* command line fixed the flags and the working tree fixed the snapshot
\* before this point; nothing reads them before the step that uses them, and
\* that step is where the model draws them (FetchState, Detect).
DeployStart(p) ==
    /\ pc[p] = "idle"
    /\ cmd' = [cmd EXCEPT ![p] = "deploy"]
    /\ pc' = [pc EXCEPT ![p] = "acquire"]
    /\ startCur' = [startCur EXCEPT ![p] = current]
    /\ UNCHANGED <<remoteVars, clock, localVars, result, warned, touched, held>>

\* mutant: the lock directory is made with the idempotent mkdir -p
AcquireLockErrIdempotent == FALSE

\* Client.AcquireLock: sftp Mkdir fails when the directory exists, and when
\* its parent, the remote path, does not; every error is returned as
\* "Deployment lock already held"
AcquireLockErr == lockDir \/ ~remotePath

\* Step 5.5: on error Deploy returns before the release is deferred
AcquireLock(p) ==
    /\ pc[p] = "acquire"
    /\ IF AcquireLockErr
         THEN /\ pc' = [pc EXCEPT ![p] = "done"]
              /\ result' = [result EXCEPT ![p] = "deploy_in_progress"]
              /\ UNCHANGED <<lockDir, held, touched>>
         ELSE /\ lockDir' = TRUE
              /\ held' = [held EXCEPT ![p] = TRUE]
              /\ Touch(p, {<<".versa.lock", 0>>})
              /\ Goto(p, "fetch")
    /\ UNCHANGED <<rel, current, currentTmp, deployLock, files, clock, cmd,
                   localVars, warned, startCur>>

\* mutant: a missing deploy.lock is taken for a first deployment
FetchStateLenient(p) ==
    /\ pc[p] = "fetch"
    /\ \E ok \in BOOLEAN, i \in BOOLEAN :
         /\ flags' = [flags EXCEPT ![p].initialDeploy = i]
         /\ IF ~ok
              THEN Ret(p, "error") /\ UNCHANGED previousLock
              ELSE /\ previousLock' = [previousLock EXCEPT ![p] = deployLock]
                   /\ Goto(p, "detect")
    /\ UNCHANGED <<remoteVars, clock, cmd, src, cs, ver, hookIdx, hpc, target,
                   seen, touched, warned, startCur, held>>

\* Step 6: FileExists(deploy.lock), DownloadFile, state.Parse
FetchState(p) ==
    /\ pc[p] = "fetch"
    /\ \E ok \in BOOLEAN, i \in BOOLEAN :
         /\ flags' = [flags EXCEPT ![p].initialDeploy = i]
         /\ IF ~ok
              THEN Ret(p, "error") /\ UNCHANGED previousLock
              ELSE IF deployLock # NoLock
                THEN /\ previousLock' = [previousLock EXCEPT ![p] = deployLock]
                     /\ Goto(p, "detect")
                ELSE /\ UNCHANGED previousLock
                     /\ IF ~i
                          THEN Ret(p, "state_missing")
                          ELSE Goto(p, "detect")
    /\ UNCHANGED <<remoteVars, clock, cmd, src, cs, ver, hookIdx, hpc, target,
                   seen, touched, warned, startCur, held>>

Flags(p, f, d) == flags' = [flags EXCEPT ![p].force = f, ![p].dryRun = d]

\* mutant: the dry-run flag is not looked at
DetectIgnoresDryRun(p) ==
    /\ pc[p] = "detect"
    /\ \E ok \in BOOLEAN, f \in BOOLEAN, d \in BOOLEAN, s \in SrcSet :
         /\ src' = [src EXCEPT ![p] = s]
         /\ Flags(p, f, d)
         /\ IF ~ok THEN Ret(p, "error") /\ UNCHANGED cs
            ELSE /\ cs' = [cs EXCEPT ![p] = ChangeSet(previousLock[p], s, f)]
                 /\ IF ~HasChanges(previousLock[p], s) /\ ~f THEN Ret(p, "no_changes")
                    ELSE Goto(p, "build")
    /\ UNCHANGED <<remoteVars, clock, cmd, previousLock, ver, hookIdx, hpc, target,
                   seen, touched, warned, startCur, held>>

\* Step 7: detector.Detect, cs.Force = d.force, the no-changes gate and the
\* dry-run exit
Detect(p) ==
    /\ pc[p] = "detect"
    /\ \E ok \in BOOLEAN, f \in BOOLEAN, d \in BOOLEAN, s \in SrcSet :
         /\ src' = [src EXCEPT ![p] = s]
         /\ Flags(p, f, d)
         /\ IF ~ok THEN Ret(p, "error") /\ UNCHANGED cs
            ELSE /\ cs' = [cs EXCEPT ![p] = ChangeSet(previousLock[p], s, f)]
                 /\ IF ~HasChanges(previousLock[p], s) /\ ~f THEN Ret(p, "no_changes")
                    ELSE IF d THEN Ret(p, "dry_run")
                    ELSE Goto(p, "build")
    /\ UNCHANGED <<remoteVars, clock, cmd, previousLock, ver, hookIdx, hpc, target,
                   seen, touched, warned, startCur, held>>

\* config.Builds: the build engines an environment can enable
Engines == {"php", "go", "frontend"}

\* Builder.Build runs the enabled engines one after the other (buildPHP,
\* buildGo, buildFrontend) and returns the error of the first that fails
BuildErr(enabled, failing) == enabled \cap failing # {}

\* mutant: the error of the engines is reported and the run goes on
BuildKeepsGoing(p) ==
    /\ pc[p] = "build"
    /\ clock < MaxVer
    /\ clock' = clock + 1
    /\ ver' = [ver EXCEPT ![p] = clock + 1]
    /\ pc' = [pc EXCEPT ![p] = "prepare"]
    /\ \E enabled \in SUBSET Engines, failing \in SUBSET Engines :
          result' = [result EXCEPT ![p] =
                       IF BuildErr(enabled, failing) THEN "build_failed" ELSE @]
    /\ flags' = [flags EXCEPT ![p] = NoFlags]
    /\ cs' = [cs EXCEPT ![p] = NoCs]
    /\ UNCHANGED <<remoteVars, cmd, src, previousLock, hookIdx, hpc, target,
                   seen, touched, warned, startCur, held>>

\* Steps 8-10: GenerateReleaseVersion, builder.Build, GenerateManifest,
\* Validate: all local. An engine that fails ends the run, and so does a
\* local error (the artifact directory, the copy of the repository, the
\* manifest). The version is a fresh tick of the clock. No later step reads
\* the flags: the run drops them here.
Build(p) ==
    /\ pc[p] = "build"
    /\ \E enabled \in SUBSET Engines, failing \in SUBSET Engines, localErr \in BOOLEAN :
          IF BuildErr(enabled, failing)
            THEN Ret(p, "build_failed") /\ UNCHANGED <<clock, ver>>
            ELSE IF localErr
              THEN Ret(p, "error") /\ UNCHANGED <<clock, ver>>
              ELSE /\ clock < MaxVer
                   /\ clock' = clock + 1
                   /\ ver' = [ver EXCEPT ![p] = clock + 1]
                   /\ Goto(p, "prepare")
    /\ flags' = [flags EXCEPT ![p] = NoFlags]
    /\ cs' = [cs EXCEPT ![p] = NoCs]
    /\ UNCHANGED <<remoteVars, cmd, src, previousLock, hookIdx, hpc, target,
                   seen, touched, warned, startCur, held>>

\* Step 11: mkdir -p releases, CheckDiskSpace, CompressChunked (local)
PrepareUpload(p) ==
    /\ pc[p] = "prepare"
    /\ \/ Ret(p, "error") /\ UNCHANGED touched
       \/ Touch(p, {<<"releases", 0>>}) /\ Ret(p, "disk_space")
       \/ Touch(p, {<<"releases", 0>>}) /\ Goto(p, "upload")
    /\ UNCHANGED <<remoteVars, clock, cmd, localVars, warned, startCur, held>>

\* UploadFilesParallel(chunkPaths, RemotePath, 4): the workers take the jobs
\* off the channel and call uploadFile; with no more chunks than workers
\* every chunk is taken, whatever fails. One transfer: the chunk arrives, or
\* the transfer fails and its worker returns the error.
UploadFile(p, i) ==
    /\ pc[p] = "upload"
    /\ ChunkOf(ver[p], i) \notin files /\ PartOf(ver[p], i) \notin files
    /\ \/ files' = files \cup {ChunkOf(ver[p], i)}
       \/ files' = files \cup {PartOf(ver[p], i)}
    /\ Touch(p, {ChunkOf(ver[p], i)})
    /\ UNCHANGED <<lockDir, rel, current, currentTmp, deployLock, clock, pc, cmd,
                   localVars, result, warned, startCur, held>>

\* mutant: the group is not waited for
UploadersDoneEarly(p) == TRUE

\* every chunk has been taken and its transfer has ended
UploadersDone(p) ==
    \A i \in Chunks : ChunkOf(ver[p], i) \in files \/ PartOf(ver[p], i) \in files

\* g.Wait() returns when every worker has returned, with the first error; or
\* MkdirAll(remoteDir) failed before any worker was started
Upload(p) ==
    /\ pc[p] = "upload"
    /\ \/ /\ UploadersDone(p)
          /\ IF PartsOf(ver[p]) \cap files = {}
               THEN Goto(p, "reassemble")
               ELSE Ret(p, "upload_failed")
       \/ /\ (ChunksOf(ver[p]) \cup PartsOf(ver[p])) \cap files = {}
          /\ Ret(p, "upload_failed")
    /\ UNCHANGED <<remoteVars, clock, cmd, localVars, touched, warned, startCur, held>>

\* cat <archive>.* > <archive> && rm -f <archive>.*  : a failing cat leaves
\* the (partial) archive and the chunks
Reassemble(p) ==
    /\ pc[p] = "reassemble"
    /\ \/ /\ files' = (files \ ChunksOf(ver[p])) \cup {ArchiveOf(ver[p])}
          /\ Goto(p, "extract_mkdir")
       \/ /\ files' = files \cup {ArchiveOf(ver[p])}
          /\ Ret(p, "error")
    /\ Touch(p, {ArchiveOf(ver[p])} \cup ChunksOf(ver[p]))
    /\ UNCHANGED <<lockDir, rel, current, currentTmp, deployLock, clock, cmd,
                   localVars, warned, startCur, held>>

\* ExtractArchive, first half: sftp MkdirAll(stagingDir). On error Deploy
\* removes the archive (rm -f) and returns.
ExtractMkdir(p) ==
    /\ pc[p] = "extract_mkdir"
    /\ \/ /\ rel' = [rel EXCEPT ![Staging(ver[p])] = "partial"]
          /\ Touch(p, {<<"rel", Staging(ver[p])>>})
          /\ UNCHANGED files
          /\ Goto(p, "extract_tar")
       \/ /\ files' = files \ {ArchiveOf(ver[p])}
          /\ Touch(p, {ArchiveOf(ver[p])})
          /\ UNCHANGED rel
          /\ Ret(p, "extract_failed")
    /\ UNCHANGED <<lockDir, current, currentTmp, deployLock, clock, cmd,
                   localVars, warned, startCur, held>>

\* mutant: the error of tar is dropped and the run goes on to finalize
ExtractTarIgnoresError(p) ==
    /\ pc[p] = "extract_tar"
    /\ \/ rel' = [rel EXCEPT ![Staging(ver[p])] = "full"]
       \/ UNCHANGED rel
    /\ Goto(p, "finalize")
    /\ files' = files \ {ArchiveOf(ver[p])}
    /\ Touch(p, {ArchiveOf(ver[p]), <<"rel", Staging(ver[p])>>})
    /\ UNCHANGED <<lockDir, current, currentTmp, deployLock, clock, cmd,
                   localVars, warned, startCur, held>>

\* ExtractArchive, second half: tar -xzf into the staging directory; then
\* the archive is removed on both paths. A failed tar leaves the staging
\* directory as it is.
ExtractTar(p) ==
    /\ pc[p] = "extract_tar"
    /\ \/ /\ rel' = [rel EXCEPT ![Staging(ver[p])] = "full"]
          /\ Goto(p, "finalize")
       \/ /\ UNCHANGED rel
          /\ Ret(p, "extract_failed")
    /\ files' = files \ {ArchiveOf(ver[p])}
    /\ Touch(p, {ArchiveOf(ver[p]), <<"rel", Staging(ver[p])>>})
    /\ UNCHANGED <<lockDir, current, currentTmp, deployLock, clock, cmd,
                   localVars, warned, startCur, held>>

\* mv -T staging final; on failure rm -rf staging
Finalize(p) ==
    /\ pc[p] = "finalize"
    /\ \/ /\ rel' = [rel EXCEPT ![Staging(ver[p])] = "absent",
                                ![Final(ver[p])] = rel[Staging(ver[p])]]
          /\ Touch(p, {<<"rel", Staging(ver[p])>>, <<"rel", Final(ver[p])>>})
          /\ Goto(p, "wire")
       \/ /\ rel' = [rel EXCEPT ![Staging(ver[p])] = "absent"]
          /\ Touch(p, {<<"rel", Staging(ver[p])>>})
          /\ Ret(p, "error")
    /\ UNCHANGED <<lockDir, current, currentTmp, deployLock, files, clock, cmd,
                   localVars, warned, startCur, held>>

\* Steps 11.5-11.7: handleSharedPaths, reuseDependencies, handlePreservedPaths
\* write inside the new release and under shared/
WirePaths(p) ==
    /\ pc[p] = "wire"
    /\ Touch(p, {<<"shared", 0>>, <<"rel", Final(ver[p])>>})
    /\ \/ Goto(p, "act_rm")
       \/ Ret(p, "error")
    /\ UNCHANGED <<remoteVars, clock, cmd, localVars, warned, startCur, held>>

\* ------------------------------------------------------ Client.CreateSymlink
\* Four remote round trips on linkPath = current, tmpLink = current.tmp:
\*   sftp Remove(tmpLink)            (error ignored)
\*   ln -sfn target tmpLink
\*   mv -Tf tmpLink linkPath         (fails when tmpLink does not exist)
\*   ReadSymlink(linkPath) and the suffix comparison
SymlinkRemoveTmp == currentTmp' = NoLink /\ UNCHANGED current
SymlinkLn(t) == currentTmp' = t /\ UNCHANGED current
SymlinkMv == currentTmp # NoLink /\ current' = currentTmp /\ currentTmp' = NoLink
SymlinkMvFails == currentTmp = NoLink

\* mutant: the link is made to the staging name of the release
ActivateTargetStaging(p) == AbsLink(Staging(ver[p]))

\* Step 12: absoluteTarget = RemotePath/releases/<releaseVersion>
ActivateTarget(p) == AbsLink(Final(ver[p]))

\* what the hook phase starts with: group i of PostDeploy, or Step 14
EnterHooks(p, i) ==
    IF i > Len(PostDeploy)
      THEN /\ pc' = [pc EXCEPT ![p] = "write_state"]
           /\ hookIdx' = [hookIdx EXCEPT ![p] = 0]
           /\ hpc' = [hpc EXCEPT ![p] = [h \in HookIds |-> "off"]]
      ELSE /\ pc' = [pc EXCEPT ![p] = "hook_wait"]
           /\ hookIdx' = [hookIdx EXCEPT ![p] = i]
           /\ hpc' = [hpc EXCEPT ![p] =
                        [h \in HookIds |-> IF h <= PostDeploy[i] THEN "exec" ELSE "off"]]

ActRemoveTmp(p) ==
    /\ pc[p] = "act_rm"
    /\ SymlinkRemoveTmp
    /\ Touch(p, {<<"current.tmp", 0>>})
    /\ Goto(p, "act_ln")
    /\ UNCHANGED <<lockDir, rel, deployLock, files, clock, cmd, localVars, warned, startCur, held>>

ActLn(p) ==
    /\ pc[p] = "act_ln"
    /\ \/ /\ SymlinkLn(ActivateTarget(p))
          /\ Touch(p, {<<"current.tmp", 0>>})
          /\ Goto(p, "act_mv")
       \/ /\ UNCHANGED <<current, currentTmp, touched>>
          /\ Ret(p, "error")
    /\ UNCHANGED <<lockDir, rel, deployLock, files, clock, cmd, localVars, warned, startCur, held>>

ActMv(p) ==
    /\ pc[p] = "act_mv"
    /\ \/ /\ SymlinkMv
          /\ Touch(p, {<<"current.tmp", 0>>, <<"current", 0>>})
          /\ Goto(p, "act_verify")
       \/ /\ SymlinkMvFails
          /\ UNCHANGED <<current, currentTmp, touched>>
          /\ Ret(p, "error")
    /\ UNCHANGED <<lockDir, rel, deployLock, files, clock, cmd, localVars, warned, startCur, held>>

\* the read can fail, and the comparison can fail when someone else moved
\* another link in between
ActVerify(p) ==
    /\ pc[p] = "act_verify"
    /\ \/ /\ VerifyOk(current, ActivateTarget(p))
          /\ EnterHooks(p, 1)
          /\ UNCHANGED result
       \/ /\ Ret(p, "symlink_verification")
          /\ UNCHANGED <<hookIdx, hpc>>
    /\ UNCHANGED <<remoteVars, clock, cmd, flags, cs, src, previousLock, ver, target,
                   seen, touched, warned, startCur, held>>

\* ------------------------------------------------- Deployer.runHook, rollback

\* Deployer.rollback: relativeTarget = releases/<previousLock.LastDeploy.ReleaseDir>
RollbackTarget(p) == RelLink(previousLock[p].rel)

\* mutant: a failed hook never rolls back
HookRollsBackNever(p) == FALSE

\* runHook: previousLock != nil decides whether a rollback is attempted
HookRollsBack(p) == previousLock[p] # NoLock

SetH(p, h, l) == hpc' = [hpc EXCEPT ![p][h] = l]

\* ExecuteCommandWithTimeout(cd <finalDir>/app && hook): exit 0, or non-zero
\* or timed out. The hook runs inside the new release.
HookExec(p, h) ==
    /\ pc[p] = "hook_wait" /\ hpc[p][h] = "exec"
    /\ \/ SetH(p, h, "ok")
       \/ IF HookRollsBack(p)
            THEN SetH(p, h, "rb_rm")
            ELSE SetH(p, h, "hook_failed_no_previous")
    /\ Touch(p, {<<"rel", Final(ver[p])>>})
    /\ UNCHANGED <<remoteVars, clock, pc, cmd, flags, cs, src, previousLock, ver, hookIdx,
                   target, seen, result, warned, startCur, held>>

HookRbRemoveTmp(p, h) ==
    /\ pc[p] = "hook_wait" /\ hpc[p][h] = "rb_rm"
    /\ SymlinkRemoveTmp
    /\ SetH(p, h, "rb_ln")
    /\ Touch(p, {<<"current.tmp", 0>>})
    /\ UNCHANGED <<lockDir, rel, deployLock, files, clock, pc, cmd, flags, cs, src,
                   previousLock, ver, hookIdx, target, seen, result, warned, startCur, held>>

HookRbLn(p, h) ==
    /\ pc[p] = "hook_wait" /\ hpc[p][h] = "rb_ln"
    /\ \/ /\ SymlinkLn(RollbackTarget(p))
          /\ Touch(p, {<<"current.tmp", 0>>})
          /\ SetH(p, h, "rb_mv")
       \/ /\ UNCHANGED <<current, currentTmp, touched>>
          /\ SetH(p, h, "hook_failed_rollback_failed")
    /\ UNCHANGED <<lockDir, rel, deployLock, files, clock, pc, cmd, flags, cs, src,
                   previousLock, ver, hookIdx, target, seen, result, warned, startCur, held>>

HookRbMv(p, h) ==
    /\ pc[p] = "hook_wait" /\ hpc[p][h] = "rb_mv"
    /\ \/ /\ SymlinkMv
          /\ Touch(p, {<<"current.tmp", 0>>, <<"current", 0>>})
          /\ SetH(p, h, "rb_verify")
       \/ /\ SymlinkMvFails
          /\ UNCHANGED <<current, currentTmp, touched>>
          /\ SetH(p, h, "hook_failed_rollback_failed")
    /\ UNCHANGED <<lockDir, rel, deployLock, files, clock, pc, cmd, flags, cs, src,
                   previousLock, ver, hookIdx, target, seen, result, warned, startCur, held>>

HookRbVerify(p, h) ==
    /\ pc[p] = "hook_wait" /\ hpc[p][h] = "rb_verify"
    /\ \/ /\ VerifyOk(current, RollbackTarget(p))
          /\ SetH(p, h, "hook_failed")
       \/ SetH(p, h, "hook_failed_rollback_failed")
    /\ UNCHANGED <<remoteVars, clock, pc, cmd, flags, cs, src, previousLock, ver, hookIdx,
                   target, seen, result, touched, warned, startCur, held>>

HookDone == {"off", "ok", "hook_failed", "hook_failed_no_previous",
             "hook_failed_rollback_failed"}
HookErrors == HookDone \ {"off", "ok"}

\* the single command returns its error at once; errgroup.Wait returns after
\* every goroutine of the group has returned, with the first error recorded
HookJoin(p) ==
    /\ pc[p] = "hook_wait"
    /\ \A h \in HookIds : hpc[p][h] \in HookDone
    /\ LET errs == {hpc[p][h] : h \in HookIds} \cap HookErrors IN
         IF errs = {}
           THEN EnterHooks(p, hookIdx[p] + 1) /\ UNCHANGED result
           ELSE /\ \E e \in errs : Ret(p, e)
                /\ hpc' = [hpc EXCEPT ![p] = [h \in HookIds |-> "off"]]
                /\ hookIdx' = [hookIdx EXCEPT ![p] = 0]
    /\ UNCHANGED <<remoteVars, clock, cmd, flags, cs, src, previousLock, ver, target,
                   seen, touched, warned, startCur, held>>

\* ------------------------------------------------ Steps 14, 15 and the return

\* Step 14: state.New(commitHash, releaseVersion, cs.AllFileHashes, ...),
\* ToJSON and the two local os.WriteFile, whose errors Deploy returns; then
\* UploadDirectory over deploy.lock, whose error is logged only. A failed
\* upload is taken to leave the remote file as it was.
WriteState(p) ==
    /\ pc[p] = "write_state"
    /\ \/ /\ Ret(p, "state_write_failed")
          /\ UNCHANGED <<deployLock, touched, warned>>
       \/ /\ deployLock' = [rel |-> Final(ver[p]), fp |-> src[p]]
          /\ Touch(p, {<<"deploy.lock", 0>>})
          /\ Goto(p, "retention")
          /\ UNCHANGED warned
       \/ /\ warned' = [warned EXCEPT ![p] = @ \cup {"deploy.lock"}]
          /\ Goto(p, "retention")
          /\ UNCHANGED <<deployLock, touched>>
    /\ UNCHANGED <<lockDir, rel, current, currentTmp, files, clock, cmd, localVars,
                   startCur, held>>

\* mutant: the list is not reversed, the oldest keepCount entries are kept
OldReleasesAscending(keepCount) ==
    LET S == ListReleases
        sorted == SortReleases(S)
    IN IF Cardinality(S) <= keepCount THEN << >>
       ELSE [i \in 1..(Cardinality(S) - keepCount) |-> sorted[i]]

\* Client.CleanupOldReleases(releasesDir, keepCount): the entries after the
\* first keepCount of the descending list, in that order
OldReleases(keepCount) ==
    LET S == ListReleases
        sorted == SortReleases(S)
    IN IF Cardinality(S) <= keepCount THEN << >>
       ELSE [i \in 1..(Cardinality(S) - keepCount) |-> sorted[keepCount + i]]

\* Step 15: the first k old entries are removed; either all of them and no
\* error, or ListReleases (k = 0) or the rm -rf after the k-th fails and the
\* error is logged only. Deploy returns nil either way.
Retention(p) ==
    /\ pc[p] = "retention"
    /\ LET old == OldReleases(ReleasesToKeep) IN
         \E k \in 0..Len(old), err \in BOOLEAN :
            LET gone == {old[i] : i \in 1..k} IN
              /\ IF err THEN k < Len(old) \/ k = 0 ELSE k = Len(old)
              /\ rel' = [n \in Names |-> IF n \in gone THEN "absent" ELSE rel[n]]
              /\ Touch(p, {<<"rel", n>> : n \in gone})
              /\ warned' = [warned EXCEPT ![p] =
                              IF err THEN @ \cup {"retention"} ELSE @]
    /\ Ret(p, "success")
    /\ UNCHANGED <<lockDir, current, currentTmp, deployLock, files, clock, cmd,
                   localVars, startCur, held>>

\* the deferred Client.ReleaseLock (sftp RemoveDirectory), then Deploy returns
ReleaseLock(p) ==
    /\ pc[p] = "unlock"
    /\ lockDir' = FALSE
    /\ held' = [held EXCEPT ![p] = FALSE]
    /\ pc' = [pc EXCEPT ![p] = "done"]
    /\ UNCHANGED <<rel, current, currentTmp, deployLock, files, clock, cmd, localVars,
                   result, touched, warned, startCur>>

\* the process exits. The archive and chunk files of its version are never
\* read or written by a later run (their names carry the version): the model
\* stops tracking them here.
Exit(p) ==
    /\ pc[p] = "done"
    /\ pc' = [pc EXCEPT ![p] = "idle"]
    /\ cmd' = [cmd EXCEPT ![p] = "none"]
    /\ flags' = [flags EXCEPT ![p] = NoFlags]
    /\ cs' = [cs EXCEPT ![p] = NoCs]
    /\ src' = [src EXCEPT ![p] = "s1"]
    /\ previousLock' = [previousLock EXCEPT ![p] = NoLock]
    /\ ver' = [ver EXCEPT ![p] = 0]
    /\ hookIdx' = [hookIdx EXCEPT ![p] = 0]
    /\ hpc' = [hpc EXCEPT ![p] = [h \in HookIds |-> "off"]]
    /\ target' = [target EXCEPT ![p] = NoLink]
    /\ seen' = [seen EXCEPT ![p] = NoSeen]
    /\ result' = [result EXCEPT ![p] = "none"]
    /\ warned' = [warned EXCEPT ![p] = {}]
    /\ touched' = [touched EXCEPT ![p] = {}]
    /\ startCur' = [startCur EXCEPT ![p] = NoLink]
    /\ files' = {f \in files : f[2] # ver[p]}
    /\ UNCHANGED <<lockDir, rel, current, currentTmp, deployLock, clock, held>>

\* ---------------------------------------------------------- Deployer.Rollback
\* The command connects and goes straight to the symlink: it never calls
\* AcquireLock.

RollbackStart(p) ==
    /\ pc[p] = "idle"
    /\ cmd' = [cmd EXCEPT ![p] = "rollback"]
    /\ pc' = [pc EXCEPT ![p] = "r_read"]
    /\ startCur' = [startCur EXCEPT ![p] = current]
    /\ UNCHANGED <<remoteVars, clock, localVars, result, warned, touched, held>>

\* the rollback command returns r
RbRet(p, r) ==
    /\ pc' = [pc EXCEPT ![p] = "done"]
    /\ result' = [result EXCEPT ![p] = r]

\* ReadSymlink(current): fails when there is no link (or the read fails)
RbRead(p) ==
    /\ pc[p] = "r_read"
    /\ \/ /\ current # NoLink
          /\ seen' = [seen EXCEPT ![p].cur = current]
          /\ Goto(p, "r_list")
       \/ /\ RbRet(p, "error")
          /\ UNCHANGED seen
    /\ UNCHANGED <<remoteVars, clock, cmd, flags, cs, src, previousLock, ver, hookIdx, hpc,
                   target, touched, warned, startCur, held>>

\* mutant: the second entry of the descending list, whatever current is
PreviousReleaseSecond(S, cur) == SortReleases(S)[2]

\* the first entry of the descending list that is not filepath.Base(currentTarget);
\* 0 stands for previousRelease == ""
PreviousRelease(S, cur) ==
    LET sorted == SortReleases(S)
        idx == {i \in 1..Len(sorted) : sorted[i] # cur.name}
    IN IF idx = {} THEN 0
       ELSE sorted[CHOOSE i \in idx : \A j \in idx : i <= j]

\* ListReleases, the len(releases) < 2 test, SortReleases and the search
RbList(p) ==
    /\ pc[p] = "r_list"
    /\ \/ /\ RbRet(p, "error")
          /\ UNCHANGED <<seen, target>>
       \/ /\ seen' = [seen EXCEPT ![p].list = ListReleases, ![p].listed = TRUE]
          /\ IF Cardinality(ListReleases) < 2
               THEN RbRet(p, "no_previous_release") /\ UNCHANGED target
               ELSE IF PreviousRelease(ListReleases, seen[p].cur) = 0
                 THEN RbRet(p, "error") /\ UNCHANGED target
                 ELSE /\ target' = [target EXCEPT ![p] =
                                      RelLink(PreviousRelease(ListReleases, seen[p].cur))]
                      /\ Goto(p, "r_rm")
    /\ UNCHANGED <<remoteVars, clock, cmd, flags, cs, src, previousLock, ver, hookIdx, hpc,
                   touched, warned, startCur, held>>

RbRemoveTmp(p) ==
    /\ pc[p] = "r_rm"
    /\ SymlinkRemoveTmp
    /\ Touch(p, {<<"current.tmp", 0>>})
    /\ Goto(p, "r_ln")
    /\ UNCHANGED <<lockDir, rel, deployLock, files, clock, cmd, localVars, warned, startCur, held>>

RbLn(p) ==
    /\ pc[p] = "r_ln"
    /\ \/ /\ SymlinkLn(target[p])
          /\ Touch(p, {<<"current.tmp", 0>>})
          /\ Goto(p, "r_mv")
       \/ /\ UNCHANGED <<current, currentTmp, touched>>
          /\ RbRet(p, "error")
    /\ UNCHANGED <<lockDir, rel, deployLock, files, clock, cmd, localVars, warned, startCur, held>>

RbMv(p) ==
    /\ pc[p] = "r_mv"
    /\ \/ /\ SymlinkMv
          /\ Touch(p, {<<"current.tmp", 0>>, <<"current", 0>>})
          /\ Goto(p, "r_verify")
       \/ /\ SymlinkMvFails
          /\ UNCHANGED <<current, currentTmp, touched>>
          /\ RbRet(p, "error")
    /\ UNCHANGED <<lockDir, rel, deployLock, files, clock, cmd, localVars, warned, startCur, held>>

\* mutant: a verified rollback records the release in deploy.lock
RbVerifyUpdatesLock(p) ==
    /\ pc[p] = "r_verify"
    /\ \/ /\ VerifyOk(current, target[p])
          /\ RbRet(p, "rolled_back")
          /\ deployLock' = [rel |-> target[p].name, fp |-> deployLock.fp]
       \/ RbRet(p, "symlink_verification") /\ UNCHANGED deployLock
    /\ UNCHANGED <<lockDir, rel, current, currentTmp, files, clock, cmd, localVars,
                   touched, warned, startCur, held>>

RbVerify(p) ==
    /\ pc[p] = "r_verify"
    /\ \/ /\ VerifyOk(current, target[p])
          /\ RbRet(p, "rolled_back")
       \/ RbRet(p, "symlink_verification")
    /\ UNCHANGED <<remoteVars, clock, cmd, localVars, touched, warned, startCur, held>>

\* ------------------------------------------------------------ specifications

Step(p) ==
    \/ AcquireLock(p) \/ FetchState(p) \/ Detect(p) \/ Build(p)
    \/ PrepareUpload(p) \/ (\E i \in Chunks : UploadFile(p, i)) \/ Upload(p)
    \/ Reassemble(p)
    \/ ExtractMkdir(p) \/ ExtractTar(p) \/ Finalize(p) \/ WirePaths(p)
    \/ ActRemoveTmp(p) \/ ActLn(p) \/ ActMv(p) \/ ActVerify(p)
    \/ \E h \in HookIds :
          \/ HookExec(p, h) \/ HookRbRemoveTmp(p, h) \/ HookRbLn(p, h)
          \/ HookRbMv(p, h) \/ HookRbVerify(p, h)
    \/ HookJoin(p) \/ WriteState(p) \/ Retention(p) \/ ReleaseLock(p) \/ Exit(p)
    \/ RbRead(p) \/ RbList(p) \/ RbRemoveTmp(p) \/ RbLn(p) \/ RbMv(p) \/ RbVerify(p)

\* a finished process exits before any other process takes its next step:
\* its exit changes nothing another process reads
NoneDone(p) == \A q \in Procs \ {p} : pc[q] # "done"

\* commands overlap freely; MaxRuns of them are started
Next ==
    \E p \in Procs :
        \/ runs < MaxRuns /\ NoneDone(p) /\ DeployStart(p) /\ runs' = runs + 1
              /\ UNCHANGED auxVars
        \/ runs < MaxRuns /\ NoneDone(p) /\ RollbackStart(p) /\ runs' = runs + 1
              /\ UNCHANGED auxVars
        \/ NoneDone(p) /\ Step(p) /\ UNCHANGED <<runs, auxVars>>

Spec == Init /\ [][Next]_vars

\* one command at a time: a command starts when no other is running
AllIdle == \A q \in Procs : pc[q] = "idle"

NextSerial ==
    \E p \in Procs :
        \/ AllIdle /\ DeployStart(p) /\ UNCHANGED <<runs, auxVars>>
        \/ AllIdle /\ RollbackStart(p) /\ UNCHANGED <<runs, auxVars>>
        \/ Step(p) /\ UNCHANGED <<runs, auxVars>>

SpecSerial == Init /\ [][NextSerial]_vars

\* A host on which the remote path may not have been made yet: nothing
\* before Step 5.5 creates it
InitFresh ==
    /\ DeployRest /\ EnvRest /\ CodecRest /\ DetRest /\ ChunkRest /\ UpRest /\ ReuseRest /\ PoolRest /\ ConnRest
    /\ remotePath \in BOOLEAN

SpecFresh == InitFresh /\ [][NextSerial]_vars

\* A remote that earlier deploys have filled: of the MaxOld versions before
\* the behaviour, the oldest a were deployed successfully (their directories
\* stand, current and deploy.lock name the last of them) and the b after
\* them failed at extraction (their .staging directories stand). No
\* retention pass has had more than ReleasesToKeep entries to look at.
InitSeeded ==
    /\ \E a \in 1..MaxOld, b \in 0..MaxOld :
         /\ a + b <= MaxOld
         /\ rel = [n \in Names |->
                     IF \E v \in (0 - (a + b))..(0 - (b + 1)) : n = Final(v) THEN "full"
                     ELSE IF \E v \in (0 - b)..(0 - 1) : n = Staging(v) THEN "partial"
                     ELSE "absent"]
         /\ current = AbsLink(Final(0 - (b + 1)))
         /\ deployLock = [rel |-> Final(0 - (b + 1)), fp |-> "s1"]
    /\ lockDir = FALSE
    /\ currentTmp = NoLink
    /\ files = {}
    /\ clock = 0
    /\ pc = [p \in Procs |-> "idle"]
    /\ cmd = [p \in Procs |-> "none"]
    /\ flags = [p \in Procs |-> NoFlags]
    /\ src = [p \in Procs |-> "s1"]
    /\ cs = [p \in Procs |-> NoCs]
    /\ previousLock = [p \in Procs |-> NoLock]
    /\ ver = [p \in Procs |-> 0]
    /\ hookIdx = [p \in Procs |-> 0]
    /\ hpc = [p \in Procs |-> [h \in HookIds |-> "off"]]
    /\ target = [p \in Procs |-> NoLink]
    /\ seen = [p \in Procs |-> NoSeen]
    /\ result = [p \in Procs |-> "none"]
    /\ warned = [p \in Procs |-> {}]
    /\ touched = [p \in Procs |-> {}]
    /\ startCur = [p \in Procs |-> NoLink]
    /\ held = [p \in Procs |-> FALSE]
    /\ runs = 0
    /\ AuxRest

\* one command at a time on the seeded remote, MaxSeededRuns of them
NextSeeded ==
    \E p \in Procs :
        \/ AllIdle /\ runs < MaxSeededRuns /\ DeployStart(p) /\ runs' = runs + 1
              /\ UNCHANGED auxVars
        \/ AllIdle /\ runs < MaxSeededRuns /\ RollbackStart(p) /\ runs' = runs + 1
              /\ UNCHANGED auxVars
        \/ Step(p) /\ UNCHANGED <<runs, auxVars>>

SpecSeeded == InitSeeded /\ [][NextSeeded]_vars

\* ------------------------------------- deploys to two environments at a time
\* Process p deploys to environment p from the one machine. Each has its own
\* remote_path, so its own .versa.lock, releases/, current and deploy.lock:
\* of the remote only deploy.lock and the release current resolves to are
\* followed, and Steps 8-13 on the own remote are one step. What the two runs
\* share is the local temporary directory, where Step 6 and Step 14 put their
\* files under fixed names. No remote or local operation fails by itself.

EnvUntouched == <<lockDir, rel, current, currentTmp, deployLock, files, hookIdx,
                  hpc, target, seen, touched, startCur, held, runs>>

\* the environment's record: nothing, or a deploy of one of the last two
\* old versions
EnvRecords == {NoLock} \cup
    {[rel |-> Final(v), fp |-> s] : v \in {0 - 2, 0 - 1}, s \in SrcSet}

InitEnvs ==
    /\ DeployRest
    /\ envLock \in [Procs -> EnvRecords]
    /\ envCur = [e \in Procs |-> envLock[e].rel]
    /\ tmpLockFile = NoFile
    /\ lockUpload = NoFile
    /\ deferred = [p \in Procs |-> {}]
    /\ PureRest

\* the run returns r: its deferred removals are still to run
EnvRet(p, r) ==
    /\ pc' = [pc EXCEPT ![p] = "e_defers"]
    /\ result' = [result EXCEPT ![p] = r]

EnvStart(p) ==
    /\ pc[p] = "idle" /\ cmd[p] = "none"
    /\ cmd' = [cmd EXCEPT ![p] = "deploy"]
    /\ pc' = [pc EXCEPT ![p] = "e_exists"]
    /\ UNCHANGED <<EnvUntouched, envVars, clock, flags, cs, src, previousLock, ver,
                   result, warned>>

\* Step 6: FileExists(<RemotePath>/deploy.lock) and the initialDeploy test
EnvFileExists(p) ==
    /\ pc[p] = "e_exists"
    /\ \E i \in BOOLEAN :
         /\ flags' = [flags EXCEPT ![p].initialDeploy = i]
         /\ IF envLock[p] # NoLock THEN Goto(p, "e_download")
            ELSE IF ~i THEN EnvRet(p, "state_missing")
            ELSE Goto(p, "e_detect")
    /\ UNCHANGED <<EnvUntouched, envVars, clock, cmd, src, cs, previousLock, ver, warned>>

\* DownloadFile(lockPath, os.TempDir()/deploy.lock) and defer os.Remove
EnvDownload(p) ==
    /\ pc[p] = "e_download"
    /\ tmpLockFile' = envLock[p]
    /\ deferred' = [deferred EXCEPT ![p] = @ \cup {"deploy.lock"}]
    /\ Goto(p, "e_read")
    /\ UNCHANGED <<EnvUntouched, envLock, envCur, lockUpload, clock, cmd, flags, cs, src,
                   previousLock, ver, warned>>

\* os.ReadFile(tmpLockFile) and state.Parse
EnvReadFile(p) ==
    /\ pc[p] = "e_read"
    /\ IF tmpLockFile = NoFile
         THEN EnvRet(p, "error") /\ UNCHANGED previousLock
         ELSE /\ previousLock' = [previousLock EXCEPT ![p] = tmpLockFile]
              /\ Goto(p, "e_detect")
    /\ UNCHANGED <<EnvUntouched, envVars, clock, cmd, flags, cs, src, ver, warned>>

\* Step 7 without --force and --dry-run
EnvDetect(p) ==
    /\ pc[p] = "e_detect"
    /\ \E s \in SrcSet :
         /\ src' = [src EXCEPT ![p] = s]
         /\ IF ~HasChanges(previousLock[p], s) THEN EnvRet(p, "no_changes")
            ELSE Goto(p, "e_release")
    /\ UNCHANGED <<EnvUntouched, envVars, clock, cmd, flags, cs, previousLock, ver, warned>>

\* Steps 8-13: the release is built, uploaded, extracted and activated on the
\* environment's own remote, and its hooks pass
EnvRelease(p) ==
    /\ pc[p] = "e_release"
    /\ clock < MaxVer
    /\ clock' = clock + 1
    /\ ver' = [ver EXCEPT ![p] = clock + 1]
    /\ envCur' = [envCur EXCEPT ![p] = Final(clock + 1)]
    /\ Goto(p, "e_write")
    /\ UNCHANGED <<EnvUntouched, envLock, tmpLockFile, lockUpload, deferred, cmd,
                   flags, cs, src, previousLock, warned>>

\* Step 14, local half: os.MkdirAll(os.TempDir()/lockupload), defer
\* os.RemoveAll, os.WriteFile(lockupload/deploy.lock, newLock)
EnvWriteLock(p) ==
    /\ pc[p] = "e_write"
    /\ lockUpload' = [rel |-> Final(ver[p]), fp |-> src[p]]
    /\ deferred' = [deferred EXCEPT ![p] = @ \cup {"lockupload"}]
    /\ Goto(p, "e_upload")
    /\ UNCHANGED <<EnvUntouched, envLock, envCur, tmpLockFile, clock, cmd, flags, cs, src,
                   previousLock, ver, warned>>

\* Step 14, remote half: UploadDirectory(lockupload, RemotePath) sends what
\* the directory holds; when the directory is gone the walk fails and the
\* error is logged only. Deploy returns nil.
EnvUpload(p) ==
    /\ pc[p] = "e_upload"
    /\ IF lockUpload = NoFile
         THEN /\ warned' = [warned EXCEPT ![p] = @ \cup {"deploy.lock"}]
              /\ UNCHANGED envLock
         ELSE /\ envLock' = [envLock EXCEPT ![p] = lockUpload]
              /\ UNCHANGED warned
    /\ EnvRet(p, "success")
    /\ UNCHANGED <<EnvUntouched, envCur, tmpLockFile, lockUpload, deferred, clock, cmd,
                   flags, cs, src, previousLock, ver>>

\* the deferred os.RemoveAll(lockupload) and os.Remove(tmpLockFile) of the
\* run, then it has returned
EnvDefers(p) ==
    /\ pc[p] = "e_defers"
    /\ tmpLockFile' = IF "deploy.lock" \in deferred[p] THEN NoFile ELSE tmpLockFile
    /\ lockUpload' = IF "lockupload" \in deferred[p] THEN NoFile ELSE lockUpload
    /\ deferred' = [deferred EXCEPT ![p] = {}]
    /\ pc' = [pc EXCEPT ![p] = "done"]
    /\ UNCHANGED <<EnvUntouched, envLock, envCur, clock, cmd, flags, cs, src,
                   previousLock, ver, result, warned>>

NextEnvs ==
    \E p \in Procs :
        \/ EnvStart(p) /\ UNCHANGED pureVars
        \/ EnvFileExists(p) /\ UNCHANGED pureVars
        \/ EnvDownload(p) /\ UNCHANGED pureVars
        \/ EnvReadFile(p) /\ UNCHANGED pureVars
        \/ EnvDetect(p) /\ UNCHANGED pureVars
        \/ EnvRelease(p) /\ UNCHANGED pureVars
        \/ EnvWriteLock(p) /\ UNCHANGED pureVars
        \/ EnvUpload(p) /\ UNCHANGED pureVars
        \/ EnvDefers(p) /\ UNCHANGED pureVars

SpecEnvs == InitEnvs /\ [][NextEnvs]_vars

\* ------------------------------------------ state.DeployLock: ToJSON, Parse
\* A DeployLock is [Version, LastDeploy], LastDeploy a DeployInfo with the
\* fields of InfoTags. A Go map is [nil, m]: the nil map, or the map m. The
\* JSON text is the tree encoding/json writes: an object is the function from
\* its keys to its values, a map the list of its members in key order.

\* const LockFileVersion = "1.0"
LockFileVersion == "1.0"

\* the json tags of the fields of DeployInfo
InfoTags ==
    [Timestamp |-> "timestamp", CommitHash |-> "commit_hash",
     ReleaseDir |-> "release_dir", FileHashes |-> "file_hashes",
     ComposerHash |-> "composer_hash", PackageJSONHash |-> "package_json_hash",
     GoModHash |-> "go_mod_hash"]

NilMap == [nil |-> TRUE, m |-> << >>]
GoMap(m) == [nil |-> FALSE, m |-> m]

\* paths, in byte order, and hashes
Paths == 1..MaxPaths
HashVals == {"h1", "h2"}

\* the members of a map as encoding/json writes them: sorted by key
SortedMembers(m) ==
    [i \in 1..Cardinality(DOMAIN m) |->
        LET k == CHOOSE k \in DOMAIN m : Cardinality({x \in DOMAIN m : x < k}) = i - 1
        IN <<k, m[k]>>]

\* json.Marshal of one field: a time.Time as its RFC 3339 text, a map as
\* null or an object, a string as a string
EncField(f, v) ==
    CASE f = "Timestamp" -> [rfc3339 |-> v]
      [] f = "FileHashes" ->
           IF v.nil THEN [null |-> TRUE, members |-> << >>]
           ELSE [null |-> FALSE, members |-> SortedMembers(v.m)]
      [] OTHER -> v

\* mutant: the file-hash map is not read back
DecFieldDropsMap(f, j) ==
    CASE f = "Timestamp" -> j.rfc3339
      [] f = "FileHashes" -> NilMap
      [] OTHER -> j

\* json.Unmarshal of one field
DecField(f, j) ==
    CASE f = "Timestamp" -> j.rfc3339
      [] f = "FileHashes" ->
           IF j.null THEN NilMap
           ELSE GoMap([k \in {j.members[i][1] : i \in DOMAIN j.members} |->
                         j.members[CHOOSE i \in DOMAIN j.members : j.members[i][1] = k][2]])
      [] OTHER -> j

\* json.MarshalIndent of a DeployInfo: one member per field, under its tag
MarshalInfo(d) ==
    [k \in {InfoTags[f] : f \in DOMAIN InfoTags} |->
        LET f == CHOOSE g \in DOMAIN InfoTags : InfoTags[g] = k
        IN EncField(f, d[f])]

\* json.Unmarshal into a DeployInfo: each field from the member under its tag
UnmarshalInfo(o) == [f \in DOMAIN InfoTags |-> DecField(f, o[InfoTags[f]])]

\* DeployLock.ToJSON
ToJSON(l) ==
    [empty |-> FALSE,
     obj |-> [version |-> l.Version, last_deploy |-> MarshalInfo(l.LastDeploy)]]

\* a file of no bytes
EmptyData == [empty |-> TRUE, obj |-> << >>]

\* state.Parse: empty data and a version other than LockFileVersion are errors
Parse(data) ==
    IF data.empty THEN [err |-> "deploy.lock is empty", lock |-> NoLock]
    ELSE LET l == [Version |-> data.obj.version,
                   LastDeploy |-> UnmarshalInfo(data.obj.last_deploy)]
         IN IF l.Version # LockFileVersion
              THEN [err |-> "unsupported deploy.lock version", lock |-> NoLock]
              ELSE [err |-> "", lock |-> l]

\* the locks tried
GoMaps == {NilMap} \cup
    {GoMap(m) : m \in UNION {[S -> HashVals] : S \in SUBSET Paths}}

DeployInfos ==
    [Timestamp : {0, 1}, CommitHash : {"", "abc123"}, ReleaseDir : {"", "r1"},
     FileHashes : GoMaps, ComposerHash : {"", "h1"}, PackageJSONHash : {"", "h1"},
     GoModHash : {"", "h2"}]

DeployLocks == [Version : {LockFileVersion, "2.0"}, LastDeploy : DeployInfos]

codecOthers == <<deployVars, envVars, detVars, chunkVars, hostVars, upVars, reuseVars, poolVars, connVars>>

InitCodec ==
    /\ DeployRest /\ EnvRest /\ DetRest /\ ChunkRest /\ HostRest /\ UpRest /\ ReuseRest /\ PoolRest /\ ConnRest
    /\ lock \in DeployLocks
    /\ lockData = EmptyData
    /\ parsed = NoLock
    /\ cpc = "new"

\* lockData, err := lock.ToJSON()
CodecToJSON ==
    /\ cpc = "new"
    /\ lockData' = ToJSON(lock)
    /\ cpc' = "written"
    /\ UNCHANGED <<lock, parsed, codecOthers>>

\* the file is there with no bytes in it
CodecEmptyFile ==
    /\ cpc = "new"
    /\ lockData' = EmptyData
    /\ cpc' = "written"
    /\ UNCHANGED <<lock, parsed, codecOthers>>

\* state.Parse(lockData)
CodecParse ==
    /\ cpc = "written"
    /\ parsed' = Parse(lockData)
    /\ cpc' = "parsed"
    /\ UNCHANGED <<lock, lockData, codecOthers>>

NextCodec == CodecToJSON \/ CodecEmptyFile \/ CodecParse

SpecCodec == InitCodec /\ [][NextCodec]_vars

\* --------------------------------------------------- changeset.Detector.Detect
\* A file is [dir, stem, ext]: the directories above it from the repository
\* root, and its name cut at the last dot (filepath.Ext). Its relative path
\* is the components of dir followed by the name.

File(d, st, e) == [dir |-> d, stem |-> st, ext |-> e]

\* the files a snapshot is made of
Catalogue ==
    {File(<< >>, "index", ".php"),
     File(<<"src">>, "page", ".twig"),
     File(<<"src">>, "main", ".go"),
     File(<<"src">>, "app", ".js"),
     File(<<"src">>, "readme", ".txt"),
     File(<<"vendor">>, "lib", ".php"),
     File(<<"src", "node_modules">>, "mod", ".js"),
     File(<<"ign">>, "style", ".sass"),
     File(<<"ign">>, "Old", ".PHP"),
     File(<<"ign">>, "notes", ".txt"),
     File(<<"ign">>, "data", ".json"),
     File(<<"ign">>, "composer", ".json"),
     File(<<"ign">>, "composer", ".lock"),
     File(<<"ign">>, "pnpm-lock", ".yaml")}

BucketNames == {"PHPFiles", "TwigFiles", "GoFiles", "FrontendFiles", "OtherFiles"}

\* the walk callback on a directory: filepath.SkipDir when relPath is one of
\* the three names
SkipDir(relDir) ==
    Len(relDir) = 1 /\ relDir[1] \in {".git", "node_modules", "vendor"}

\* filepath.Walk reaches a file when none of the directories above it was
\* skipped
Reached(f) == \A i \in 1..Len(f.dir) : ~SkipDir(SubSeq(f.dir, 1, i))

\* the relative path, by components
RelPath(f) == Append(f.dir, <<f.stem, f.ext>>)

\* strings.HasPrefix(path, ignored), on components
HasPrefix(path, pre) ==
    Len(pre) <= Len(path) /\ \A i \in 1..Len(pre) : path[i] = pre[i]

\* Detector.shouldIgnore
shouldIgnore(f) == \E ig \in ignoredPaths : HasPrefix(RelPath(f), ig)

\* strings.ToLower, on the extensions of the catalogue
ToLower(e) == IF e = ".PHP" THEN ".php" ELSE e

\* the isCritical switch on the lower-cased extension; the names are looked
\* at under case ".json" only
isCritical(f) ==
    LET ext == ToLower(f.ext) IN
      \/ ext \in {".php", ".twig", ".go", ".mod", ".sum", ".js", ".ts", ".vue",
                  ".jsx", ".tsx", ".css", ".scss", ".sass", ".less"}
      \/ /\ ext = ".json"
         /\ <<f.stem, f.ext>> \in {<<"composer", ".json">>, <<"package", ".json">>,
                                   <<"composer", ".lock">>, <<"package-lock", ".json">>,
                                   <<"pnpm-lock", ".yaml">>}

\* mutant: every hashed file counts as changed
isFileChangedAlways(f, h) == TRUE

\* Detector.isFileChanged
isFileChanged(f, h) ==
    \/ detPrev.nil
    \/ f \notin DOMAIN detPrev.m
    \/ h # detPrev.m[f]

\* the switch on result.ext that picks the bucket
BucketOf(e) ==
    CASE e = ".php" -> "PHPFiles"
      [] e = ".twig" -> "TwigFiles"
      [] e = ".go" -> "GoFiles"
      [] e \in {".js", ".vue", ".ts", ".jsx", ".tsx", ".css", ".scss", ".less"} -> "FrontendFiles"
      [] OTHER -> "OtherFiles"

detOthers == <<deployVars, envVars, codecVars, chunkVars, hostVars, upVars, reuseVars, poolVars, connVars>>

\* the snapshots tried: up to MaxFiles files of the catalogue; the ignore
\* list names the directory ign or nothing; the previous lock is absent, or
\* empty, or records every file of the catalogue with hash h1
InitDetect ==
    /\ DeployRest /\ EnvRest /\ CodecRest /\ ChunkRest /\ HostRest /\ UpRest /\ ReuseRest /\ PoolRest /\ ConnRest
    /\ \E S \in SUBSET Catalogue :
         /\ Cardinality(S) <= MaxFiles
         /\ repo \in [S -> HashVals]
    /\ ignoredPaths \in {{}, {<<"ign">>}}
    /\ detPrev \in {NilMap, GoMap(<< >>), GoMap([f \in Catalogue |-> "h1"])}
    /\ filesToHash = {}
    /\ allFileHashes = << >>
    /\ buckets = [b \in BucketNames |-> {}]
    /\ dpc = "walk"

\* filepath.Walk with its callback: the files reached that are not both
\* ignored and not critical
DetWalk ==
    /\ dpc = "walk"
    /\ filesToHash' = {f \in DOMAIN repo :
                          Reached(f) /\ ~(shouldIgnore(f) /\ ~isCritical(f))}
    /\ dpc' = "collect"
    /\ UNCHANGED <<repo, ignoredPaths, detPrev, allFileHashes, buckets, detOthers>>

\* one result off the results channel, in whatever order the workers
\* deliver: the hash is recorded, a changed file is put in its bucket
DetCollect(f) ==
    /\ dpc = "collect"
    /\ f \in filesToHash \ DOMAIN allFileHashes
    /\ allFileHashes' = [g \in DOMAIN allFileHashes \cup {f} |->
                           IF g = f THEN repo[f] ELSE allFileHashes[g]]
    /\ buckets' = IF isFileChanged(f, repo[f])
                    THEN [buckets EXCEPT ![BucketOf(ToLower(f.ext))] = @ \cup {f}]
                    ELSE buckets
    /\ UNCHANGED <<repo, ignoredPaths, detPrev, filesToHash, dpc, detOthers>>

\* a result with an error: Detect returns it and no ChangeSet
DetHashError(f) ==
    /\ dpc = "collect"
    /\ f \in filesToHash \ DOMAIN allFileHashes
    /\ dpc' = "error"
    /\ allFileHashes' = << >>
    /\ buckets' = [b \in BucketNames |-> {}]
    /\ UNCHANGED <<repo, ignoredPaths, detPrev, filesToHash, detOthers>>

\* the results channel is closed and drained: Detect returns the ChangeSet
DetReturn ==
    /\ dpc = "collect"
    /\ filesToHash = DOMAIN allFileHashes
    /\ dpc' = "done"
    /\ UNCHANGED <<repo, ignoredPaths, detPrev, filesToHash, allFileHashes, buckets,
                   detOthers>>

NextDetect ==
    \/ DetWalk
    \/ \E f \in Catalogue : DetCollect(f)
    \/ \E f \in Catalogue : DetHashError(f)
    \/ DetReturn

SpecDetect == InitDetect /\ [][NextDetect]_vars

\* ------------------------------------------------------ artifact.chunkWriter
\* the values of a byte
Bytes == {0, 1}

\* the byte slices of length n
Slices(n) == [1..n -> Bytes]

\* what a Write can be handed
WriteArgs == UNION {Slices(n) : n \in 0..MaxWrite}

\* nextChunk: the current file is closed, currentID is advanced, totalSize
\* is reset, and basePath.<currentID> is created and made current; when
\* os.Create fails the error is returned and current stays what it was
nextChunk(st, createOk) ==
    IF createOk
      THEN [st EXCEPT !.cw.currentID = @ + 1, !.cw.totalSize = 0,
                      !.cw.current = st.cw.currentID + 1,
                      !.files = Append(@, << >>)]
      ELSE [st EXCEPT !.cw.currentID = @ + 1, !.cw.totalSize = 0, !.err = TRUE]

\* cw.current.Write(p): the bytes go to the end of the current file
FileWrite(st, p) ==
    [st EXCEPT !.files[st.cw.current] = @ \o p,
               !.cw.totalSize = @ + Len(p),
               !.n = @ + Len(p)]

\* if int64(len(p)) < remaining
FitsStrict(n, remaining) == n < remaining

\* if int64(len(p)) <= remaining
Fits(n, remaining) == n <= remaining

\* chunkWriter.Write(p) on st = the writer, its files and the count n
\* returned so far; creates is the number of os.Create calls that succeed
\* from here on
RECURSIVE Write(_, _, _)
Write(st, p, creates) ==
    LET opens == st.cw.current = 0
        s1 == IF opens THEN nextChunk(st, creates > 0) ELSE st
        c1 == IF opens /\ creates > 0 THEN creates - 1 ELSE creates
        remaining == s1.cw.chunkSize - s1.cw.totalSize
    IN  IF s1.err THEN s1
        ELSE IF Fits(Len(p), remaining) THEN FileWrite(s1, p)
        ELSE LET s2 == FileWrite(s1, SubSeq(p, 1, remaining))
                 s3 == nextChunk(s2, c1 > 0)
             IN  IF s3.err THEN s3
                 ELSE Write(s3, SubSeq(p, remaining + 1, Len(p)), c1 - 1)

\* ChunkPaths: the indices 1..currentID
ChunkPaths == 1..cw.currentID

chunkOthers == <<deployVars, envVars, codecVars, detVars, hostVars, upVars, reuseVars, poolVars, connVars>>

\* cw := &chunkWriter{basePath: base, chunkSize: chunkSize}
InitChunk ==
    /\ DeployRest /\ EnvRest /\ CodecRest /\ DetRest /\ HostRest /\ UpRest /\ ReuseRest /\ PoolRest /\ ConnRest
    /\ \E size \in 1..MaxChunk :
         cw = [chunkSize |-> size, current |-> 0, currentID |-> 0, totalSize |-> 0,
               err |-> FALSE, closed |-> FALSE]
    /\ chunkFiles = << >>
    /\ written = << >>

\* the outcome of one Write, put back into the variables
Wrote(p, creates) ==
    LET r == Write([cw |-> cw, files |-> chunkFiles, n |-> 0, err |-> FALSE], p, creates)
    IN  /\ cw' = [r.cw EXCEPT !.err = r.err]
        /\ chunkFiles' = r.files
        /\ written' = written \o SubSeq(p, 1, r.n)
        /\ UNCHANGED chunkOthers

\* a Write of the gzip writer, every file it needs can be created
CwWrite(p) ==
    /\ ~cw.err /\ ~cw.closed
    /\ Len(written) + Len(p) <= MaxStream
    /\ Wrote(p, Len(p) + 1)

\* a Write during which os.Create fails after creates files were created;
\* the gzip writer keeps the error and writes no more
CwWriteCreateFails(p, creates) ==
    /\ ~cw.err /\ ~cw.closed
    /\ Len(written) + Len(p) <= MaxStream
    /\ Write([cw |-> cw, files |-> chunkFiles, n |-> 0, err |-> FALSE], p, creates).err
    /\ Wrote(p, creates)

\* cw.Close()
CwClose ==
    /\ ~cw.closed
    /\ cw' = [cw EXCEPT !.closed = TRUE]
    /\ UNCHANGED <<chunkFiles, written, chunkOthers>>

NextChunk ==
    \/ \E p \in WriteArgs : CwWrite(p)
    \/ \E p \in WriteArgs, creates \in 0..MaxWrite : CwWriteCreateFails(p, creates)
    \/ CwClose

SpecChunk == InitChunk /\ [][NextChunk]_vars

\* ------------------------------------------- ssh.Client.UploadFilesParallel
\* the goroutines the group can be given
UpWorkers == 1..(IF DefaultConcurrency > MaxConc THEN DefaultConcurrency ELSE MaxConc)

\* if concurrency <= 0 { concurrency = 3 }
Concurrency(c) == IF c <= 0 THEN DefaultConcurrency ELSE c

\* mutant: g.Wait returns as soon as one goroutine has returned
WorkersReturnedAny == \E w \in 1..upConc : wpc[w] \in {"nil", "err"}

\* g.Wait: every goroutine of the group has returned
WorkersReturned == \A w \in 1..upConc : wpc[w] \in {"nil", "err"}

upOthers == <<deployVars, envVars, codecVars, detVars, chunkVars, hostVars, reuseVars, poolVars, connVars>>

\* the call UploadFilesParallel(localPaths, remoteDir, concurrency) with n
\* distinct local paths
InitUpload ==
    /\ DeployRest /\ EnvRest /\ CodecRest /\ DetRest /\ ChunkRest /\ HostRest /\ ReuseRest /\ PoolRest /\ ConnRest
    /\ \E c \in 0..MaxConc : upConc = Concurrency(c)
    /\ \E n \in 0..MaxJobs :
         /\ upJobs = [i \in 1..n |-> i]
         /\ uploaded = [i \in 1..n |-> 0]
    /\ wpc = [w \in UpWorkers |-> "off"]
    /\ wjob = [w \in UpWorkers |-> 0]
    /\ upFailed = {}
    /\ upRet = "start"

\* MkdirAll(remoteDir), the jobs channel filled and closed, and g.Go called
\* concurrency times; a failing MkdirAll returns before any goroutine exists
UpStart ==
    /\ upRet = "start"
    /\ \/ /\ upRet' = "error"
          /\ UNCHANGED wpc
       \/ /\ upRet' = "running"
          /\ wpc' = [w \in UpWorkers |-> IF w <= upConc THEN "idle" ELSE "off"]
    /\ UNCHANGED <<upConc, upJobs, wjob, uploaded, upFailed, upOthers>>

\* for job := range jobs: the next job is received
UpTake(w) ==
    /\ upRet = "running" /\ wpc[w] = "idle"
    /\ upJobs # << >>
    /\ wjob' = [wjob EXCEPT ![w] = Head(upJobs)]
    /\ upJobs' = Tail(upJobs)
    /\ wpc' = [wpc EXCEPT ![w] = "busy"]
    /\ UNCHANGED <<upConc, uploaded, upFailed, upRet, upOthers>>

\* c.uploadFile returned nil
UpFinish(w) ==
    /\ upRet = "running" /\ wpc[w] = "busy"
    /\ uploaded' = [uploaded EXCEPT ![wjob[w]] = @ + 1]
    /\ wjob' = [wjob EXCEPT ![w] = 0]
    /\ wpc' = [wpc EXCEPT ![w] = "idle"]
    /\ UNCHANGED <<upConc, upJobs, upFailed, upRet, upOthers>>

\* c.uploadFile returned an error: the goroutine returns it
UpFail(w) ==
    /\ upRet = "running" /\ wpc[w] = "busy"
    /\ upFailed' = upFailed \cup {wjob[w]}
    /\ wjob' = [wjob EXCEPT ![w] = 0]
    /\ wpc' = [wpc EXCEPT ![w] = "err"]
    /\ UNCHANGED <<upConc, upJobs, uploaded, upRet, upOthers>>

\* the closed channel is empty: the range loop ends, the goroutine returns nil
UpDrained(w) ==
    /\ upRet = "running" /\ wpc[w] = "idle"
    /\ upJobs = << >>
    /\ wpc' = [wpc EXCEPT ![w] = "nil"]
    /\ UNCHANGED <<upConc, upJobs, wjob, uploaded, upFailed, upRet, upOthers>>

\* return g.Wait(): the first error a goroutine returned, or nil
UpWait ==
    /\ upRet = "running"
    /\ WorkersReturned
    /\ upRet' = IF \E w \in 1..upConc : wpc[w] = "err" THEN "error" ELSE "nil"
    /\ UNCHANGED <<upConc, upJobs, wpc, wjob, uploaded, upFailed, upOthers>>

NextUpload ==
    \/ UpStart
    \/ \E w \in UpWorkers : UpTake(w) \/ UpFinish(w) \/ UpFail(w) \/ UpDrained(w)
    \/ UpWait

SpecUpload == InitUpload /\ [][NextUpload]_vars

\* ----------------------------------------------- Deployer.reuseDependencies
\* the engines with a manifest flag, the path each always reuses, and the
\* paths a configuration can name
ReuseEngines == {"php", "frontend"}
AlwaysReused(e) == IF e = "php" THEN "vendor" ELSE "node_modules"
ReusablePaths == {"vendor", "node_modules", "cache"}

\* cs.ComposerChanged, cs.PackageChanged with a previous lock:
\* hash != "" && hash != previousLock.LastDeploy.<manifest hash>
DepChanged(hash, prevHash) == hash # "" /\ hash # prevHash

\* the sequences without repetition over S, up to MaxReusable long
PathLists(S) ==
    {l \in UNION {[1..n -> S] : n \in 0..MaxReusable} :
        \A i, j \in DOMAIN l : i # j => l[i] # l[j]}

\* paths := ReusablePaths, with vendor (node_modules) appended when missing
WithDefault(paths, e) ==
    IF \E i \in DOMAIN paths : paths[i] = AlwaysReused(e)
      THEN paths ELSE Append(paths, AlwaysReused(e))

\* if [ ! -e newPath ] && [ -e oldPath ]
ShellTest(newState, oldState) == newState = "absent" /\ oldState # "absent"

reuseOthers == <<deployVars, envVars, codecVars, detVars, chunkVars, hostVars, upVars, poolVars, connVars>>

\* the call reuseDependencies(sshClient, previousVersion, finalDir, cs) after
\* the release was extracted: what the build left in the new release, what
\* the predecessor holds, the engine's configuration and the two hashes
InitReuse ==
    /\ DeployRest /\ EnvRest /\ CodecRest /\ DetRest /\ ChunkRest /\ HostRest /\ UpRest /\ PoolRest /\ ConnRest
    /\ \E e \in ReuseEngines, en \in BOOLEAN, h \in {"", "h1", "h2"}, ph \in {"", "h1"},
          pv \in {"", "r1"}, l \in PathLists(ReusablePaths) :
         ru = [engine |-> e, Enabled |-> en, hash |-> h, prevHash |-> ph,
               previousVersion |-> pv, paths |-> WithDefault(l, e)]
    /\ oldRel \in [ReusablePaths -> {"absent", "there"}]
    /\ newRel \in [ReusablePaths -> {"absent", "built"}]
    /\ rui = 0

\* if previousVersion == "" { return }; if Enabled && !cs.<Manifest>Changed
ReuseSkipped ==
    /\ rui = 0
    /\ ru.previousVersion = "" \/ ~ru.Enabled \/ DepChanged(ru.hash, ru.prevHash)
    /\ rui' = -1
    /\ UNCHANGED <<ru, oldRel, newRel, reuseOthers>>

\* reusePath(root, p) for the next path: one remote shell command whose
\* error is dropped; mkdir -p and cp -al run when the test passes
ReusePath ==
    /\ rui \in 0..(Len(ru.paths) - 1)
    /\ ru.previousVersion # "" /\ ru.Enabled /\ ~DepChanged(ru.hash, ru.prevHash)
    /\ LET p == ru.paths[rui + 1] IN
         \/ /\ ShellTest(newRel[p], oldRel[p])
            /\ newRel' = [newRel EXCEPT ![p] = "copied"]
         \/ UNCHANGED newRel
    /\ rui' = rui + 1
    /\ UNCHANGED <<ru, oldRel, reuseOthers>>

NextReuse == ReuseSkipped \/ ReusePath

SpecReuse == InitReuse /\ [][NextReuse]_vars

\* ------------------------------------ Detector.Detect, the hashing pool
\* the files the walk can have collected
PoolFiles ==
    {File(<< >>, "index", ".php"), File(<<"src">>, "app", ".js"),
     File(<<"src">>, "readme", ".txt"), File(<<"src">>, "main", ".go")}

\* numWorkers := runtime.NumCPU() * 2, at most len(filesToHash), at least 1
NumWorkers(cpu, n) ==
    LET a == cpu * 2
        b == IF a > n THEN n ELSE a
    IN  IF b < 1 THEN 1 ELSE b

HashWorkers == 1..(MaxCPU * 2)

\* a worker that holds no file
NoJob == File(<< >>, "", "")

\* mutant: the jobs channel is never closed
RangeEndsNever == FALSE

\* for file := range jobs ends: the channel is closed and empty
RangeEnds == jobsClosed /\ jobs = << >>

poolOthers == <<deployVars, envVars, codecVars, chunkVars, hostVars, upVars, reuseVars, connVars>>

\* Detect after the walk: filesToHash holds up to MaxFiles files, some of
\* them unreadable; the channels are made and numWorkers goroutines started
InitPool ==
    /\ DeployRest /\ EnvRest /\ CodecRest /\ ChunkRest /\ HostRest /\ UpRest /\ ReuseRest /\ ConnRest
    /\ \E S \in SUBSET PoolFiles :
         /\ Cardinality(S) <= MaxFiles
         /\ repo \in [S -> HashVals]
         /\ filesToHash = S
         /\ unreadable \in SUBSET S
         /\ hashCount = [f \in S |-> 0]
         /\ \E cpu \in 1..MaxCPU : numWorkers = NumWorkers(cpu, Cardinality(S))
    /\ ignoredPaths = {}
    /\ detPrev \in {NilMap, GoMap([f \in PoolFiles |-> "h1"])}
    /\ allFileHashes = << >>
    /\ buckets = [b \in BucketNames |-> {}]
    /\ dpc = "send"
    /\ sent = {}
    /\ jobs = << >>
    /\ jobsClosed = FALSE
    /\ results = << >>
    /\ resultsClosed = FALSE
    /\ hwpc = [w \in HashWorkers |-> IF w <= numWorkers THEN "range" ELSE "off"]
    /\ hwfile = [w \in HashWorkers |-> NoJob]

\* jobs <- file: the channel holds len(filesToHash), the send never blocks
PoolSend(f) ==
    /\ dpc = "send"
    /\ f \in filesToHash \ sent
    /\ sent' = sent \cup {f}
    /\ jobs' = Append(jobs, f)
    /\ UNCHANGED <<numWorkers, unreadable, jobsClosed, results, resultsClosed, hwpc,
                   hwfile, hashCount, detVars, poolOthers>>

\* close(jobs); the goroutine that waits for the workers is started and the
\* collect loop is entered
PoolCloseJobs ==
    /\ dpc = "send"
    /\ sent = filesToHash
    /\ jobsClosed' = TRUE
    /\ dpc' = "collect"
    /\ UNCHANGED <<numWorkers, unreadable, sent, jobs, results, resultsClosed, hwpc,
                   hwfile, hashCount, repo, ignoredPaths, detPrev, filesToHash,
                   allFileHashes, buckets, poolOthers>>

\* a worker receives the next file
PoolTake(w) ==
    /\ hwpc[w] = "range"
    /\ jobs # << >>
    /\ hwfile' = [hwfile EXCEPT ![w] = Head(jobs)]
    /\ jobs' = Tail(jobs)
    /\ hwpc' = [hwpc EXCEPT ![w] = "hash"]
    /\ UNCHANGED <<numWorkers, unreadable, sent, jobsClosed, results, resultsClosed,
                   hashCount, detVars, poolOthers>>

\* hashFile(file.path) and results <- hashResult{...}: the channel holds
\* len(filesToHash), the send never blocks
PoolHash(w) ==
    /\ hwpc[w] = "hash"
    /\ LET f == hwfile[w] IN
         /\ hashCount' = [hashCount EXCEPT ![f] = @ + 1]
         /\ results' = Append(results,
                [relPath |-> f,
                 hash |-> IF f \in unreadable THEN "" ELSE repo[f],
                 err |-> f \in unreadable])
    /\ hwfile' = [hwfile EXCEPT ![w] = NoJob]
    /\ hwpc' = [hwpc EXCEPT ![w] = "range"]
    /\ UNCHANGED <<numWorkers, unreadable, sent, jobs, jobsClosed, resultsClosed,
                   detVars, poolOthers>>

\* the range loop of a worker ends: wg.Done()
PoolWorkerDone(w) ==
    /\ hwpc[w] = "range"
    /\ RangeEnds
    /\ hwpc' = [hwpc EXCEPT ![w] = "done"]
    /\ UNCHANGED <<numWorkers, unreadable, sent, jobs, jobsClosed, results,
                   resultsClosed, hwfile, hashCount, detVars, poolOthers>>

\* wg.Wait() has returned: close(results)
PoolCloseResults ==
    /\ jobsClosed /\ ~resultsClosed
    /\ \A w \in 1..numWorkers : hwpc[w] = "done"
    /\ resultsClosed' = TRUE
    /\ UNCHANGED <<numWorkers, unreadable, sent, jobs, jobsClosed, results, hwpc,
                   hwfile, hashCount, detVars, poolOthers>>

\* for result := range results: one result; an error ends Detect, which
\* returns nil and the error
PoolCollect ==
    /\ dpc = "collect"
    /\ results # << >>
    /\ results' = Tail(results)
    /\ LET r == Head(results) IN
         IF r.err
           THEN /\ dpc' = "error"
                /\ allFileHashes' = << >>
                /\ buckets' = [b \in BucketNames |-> {}]
           ELSE /\ allFileHashes' = [g \in DOMAIN allFileHashes \cup {r.relPath} |->
                                       IF g = r.relPath THEN r.hash ELSE allFileHashes[g]]
                /\ buckets' = IF isFileChanged(r.relPath, r.hash)
                                THEN [buckets EXCEPT
                                        ![BucketOf(ToLower(r.relPath.ext))] = @ \cup {r.relPath}]
                                ELSE buckets
                /\ UNCHANGED dpc
    /\ UNCHANGED <<numWorkers, unreadable, sent, jobs, jobsClosed, resultsClosed, hwpc,
                   hwfile, hashCount, repo, ignoredPaths, detPrev, filesToHash,
                   poolOthers>>

\* the results channel is closed and empty: Detect returns the ChangeSet
PoolReturn ==
    /\ dpc = "collect"
    /\ results = << >> /\ resultsClosed
    /\ dpc' = "done"
    /\ UNCHANGED <<numWorkers, unreadable, sent, jobs, jobsClosed, results,
                   resultsClosed, hwpc, hwfile, hashCount, repo, ignoredPaths, detPrev,
                   filesToHash, allFileHashes, buckets, poolOthers>>

NextPool ==
    \/ \E f \in PoolFiles : PoolSend(f)
    \/ PoolCloseJobs
    \/ \E w \in HashWorkers : PoolTake(w) \/ PoolHash(w) \/ PoolWorkerDone(w)
    \/ PoolCloseResults
    \/ PoolCollect
    \/ PoolReturn

\* every goroutine that can take a step eventually takes one
SpecPool == InitPool /\ [][NextPool]_vars /\ WF_vars(NextPool)

\* ------------------------------------------------------------ ssh.NewClient
\* what ssh.Dial can return: nil, or an error whose text verserrors.Wrap
\* looks at
DialOutcomes == {"ok", "refused", "timeout", "handshake", "other"}

\* verserrors.Wrap on "failed to connect to SSH server after 3 attempts: <err>"
WrapDial(e) ==
    IF e = "handshake" THEN "ssh_auth_failed"
    ELSE IF e \in {"timeout", "refused"} THEN "ssh_connect_failed"
    ELSE "error"

\* time.Duration(1<<uint(attempt)) * time.Second, in seconds
Backoff(a) == 2 ^ a

\* mutant: the sleep follows every failed attempt
SleepsAfterEvery(a) == TRUE

\* if attempt < maxRetries-1
SleepsAfter(a) == a < maxRetries - 1

connOthers == <<deployVars, envVars, codecVars, detVars, chunkVars, hostVars, upVars,
                reuseVars, poolVars>>

InitConn ==
    /\ DeployRest /\ EnvRest /\ CodecRest /\ DetRest /\ ChunkRest /\ HostRest /\ UpRest
    /\ ReuseRest /\ PoolRest
    /\ cfg \in [UseSSHAgent : BOOLEAN, agentAnswers : BOOLEAN, KeyPath : BOOLEAN,
                 keyReads : BOOLEAN, keyParses : BOOLEAN]
    /\ authMethods = 0
    /\ attempt = 0
    /\ dials = << >>
    /\ slept = << >>
    /\ npc = "auth"
    /\ connResult = "none"

\* the authentication methods: the agent when it answers, the key when it
\* reads and parses; a key that fails is an error only when no method is
\* there yet, and no method at all is an error
ConnAuth ==
    /\ npc = "auth"
    /\ LET agent == IF cfg.UseSSHAgent /\ cfg.agentAnswers THEN 1 ELSE 0
           keyOk == cfg.KeyPath /\ cfg.keyReads /\ cfg.keyParses
           n == agent + (IF keyOk THEN 1 ELSE 0)
       IN  /\ authMethods' = n
           /\ IF cfg.KeyPath /\ ~keyOk /\ agent = 0
                THEN npc' = "done" /\ connResult' = "key_error"
                ELSE IF n = 0
                  THEN npc' = "done" /\ connResult' = "no_auth_methods"
                  ELSE npc' = "dial" /\ UNCHANGED connResult
    /\ UNCHANGED <<cfg, attempt, dials, slept, connOthers>>

\* one pass of the retry loop up to the sleep: ssh.Dial; nil breaks the
\* loop; an error is followed by the sleep, or by attempt++ and, when the
\* loop is over, by the return of the wrapped error
ConnDial(o) ==
    /\ npc = "dial" /\ attempt < maxRetries
    /\ dials' = Append(dials, o)
    /\ IF o = "ok"
         THEN npc' = "sftp" /\ UNCHANGED <<attempt, connResult>>
         ELSE IF SleepsAfter(attempt)
           THEN npc' = "sleep" /\ UNCHANGED <<attempt, connResult>>
           ELSE /\ attempt' = attempt + 1
                /\ IF attempt + 1 < maxRetries
                     THEN npc' = "dial" /\ UNCHANGED connResult
                     ELSE npc' = "done" /\ connResult' = WrapDial(o)
    /\ UNCHANGED <<cfg, authMethods, slept, connOthers>>

\* time.Sleep(backoff) and attempt++; past the last attempt the loop ends
\* and the wrapped error of the last Dial is returned
ConnSleep ==
    /\ npc = "sleep"
    /\ slept' = Append(slept, Backoff(attempt))
    /\ attempt' = attempt + 1
    /\ IF attempt + 1 < maxRetries
         THEN npc' = "dial" /\ UNCHANGED connResult
         ELSE npc' = "done" /\ connResult' = WrapDial(dials[Len(dials)])
    /\ UNCHANGED <<cfg, authMethods, dials, connOthers>>

\* sftp.NewClient: the Client is returned, or the connection is closed and
\* the error returned
ConnSftp ==
    /\ npc = "sftp"
    /\ npc' = "done"
    /\ connResult' \in {"connected", "sftp_error"}
    /\ UNCHANGED <<cfg, authMethods, attempt, dials, slept, connOthers>>

NextConn ==
    \/ ConnAuth
    \/ \E o \in DialOutcomes : ConnDial(o)
    \/ ConnSleep
    \/ ConnSftp

SpecConn == InitConn /\ [][NextConn]_vars

\* ===================================================================== claims

\* the command whose step this is
Acting(p) == pc'[p] # pc[p] \/ hpc'[p] # hpc[p] \/ touched'[p] # touched[p]

Holders == {p \in Procs : held[p]}

C3_MutationUnderLock ==
    [][\A p \in Procs :
          Acting(p) /\ (current' # current \/ rel' # rel \/ deployLock' # deployLock)
             => held[p]]_vars

\* ------------------------------------------------ one command at a time

Returned(p, c) == pc[p] = "done" /\ cmd[p] = c

\* the release directories the deploy run of p creates and writes into
OwnDirs(p) == IF ver[p] = 0 THEN {} ELSE {Staging(ver[p]), Final(ver[p])}

PreActivate == {"acquire", "fetch", "detect", "build", "prepare", "upload",
                "reassemble", "extract_mkdir", "extract_tar", "finalize", "wire",
                "act_rm", "act_ln", "act_mv"}

HookFailure(p) == Returned(p, "deploy") /\ result[p] \in HookErrors

C7_RollbackWithoutLock ==
    \A p \in Procs :
        /\ HookFailure(p) /\ previousLock[p] = NoLock
        /\ ListReleases \ {Final(ver[p])} # {}
        => current.name # Final(ver[p])

\* C8: after a successful rollback command, current resolves to a release
\* directory whose name is strictly earlier than the one before the command.
C8_RollbackGoesEarlier ==
    \A p \in Procs :
        Returned(p, "rollback") /\ result[p] = "rolled_back" =>
            current.name < startCur[p].name

\* the greatest name of S other than c
NewestOther(S, c) == CHOOSE n \in S \ {c} : \A m \in S \ {c} : m <= n

\* C9: the rollback command fails with no_previous_release, leaving current
\* unchanged, exactly when releases/ lists fewer than two entries; otherwise
\* the link it switches current to is the first entry, in descending name
\* order, that is not the current release.
C9_RollbackChoice ==
    \A p \in Procs :
        Returned(p, "rollback") =>
            /\ result[p] = "no_previous_release" <=>
                  seen[p].listed /\ Cardinality(seen[p].list) < 2
            /\ result[p] = "no_previous_release" =>
                  current = startCur[p] /\ touched[p] = {}
            /\ seen[p].listed /\ Cardinality(seen[p].list) >= 2 =>
                  target[p] = RelLink(NewestOther(seen[p].list, seen[p].cur.name))
            /\ result[p] = "rolled_back" =>
                  /\ Cardinality(seen[p].list) >= 2
                  /\ current = RelLink(NewestOther(seen[p].list, seen[p].cur.name))

\* C9 witness: a rollback skipped the current release, the newest of three
\* entries, and switched to the next one
C9_Witness ==
    \E p \in Procs :
        /\ Returned(p, "rollback") /\ result[p] = "rolled_back"
        /\ Cardinality(seen[p].list) >= 3
        /\ \A n \in seen[p].list : n <= seen[p].cur.name

RollbackPcs == {"r_read", "r_list", "r_rm", "r_ln", "r_mv", "r_verify"}

\* C10: the steps of the rollback command change nothing but the current
\* symlink (through current.tmp): no hook is run, no release directory is
\* created, modified or deleted, and deploy.lock is not written.
C10_RollbackFrame ==
    /\ [][\A p \in Procs :
            pc[p] \in RollbackPcs /\ Acting(p) =>
                /\ UNCHANGED <<rel, deployLock, files, lockDir>>
                /\ hpc' = hpc /\ hookIdx' = hookIdx]_vars
    /\ [](\A p \in Procs :
            cmd[p] = "rollback" =>
                touched[p] \subseteq {<<"current", 0>>, <<"current.tmp", 0>>})

\* C10 witness: a rollback command has switched current and returned
C10_Witness ==
    \E p \in Procs :
        /\ Returned(p, "rollback") /\ result[p] = "rolled_back"
        /\ current # startCur[p] /\ <<"current", 0>> \in touched[p]

\* ------------------------------------------------------- the retention pass

\* the step of p is the retention pass of its deploy
RetentionStep(p) == pc[p] = "retention" /\ pc'[p] # "retention"

ReleasesAfter == {n \in Names : rel'[n] # "absent"}

Min(a, b) == IF a <= b THEN a ELSE b

\* C11 as claimed: after the retention step releases/ holds exactly
\* min(k, N) directories, k the number before the step and N = 5, they are
\* the latest by name and the active release is one of them.
C11_RetentionExact ==
    [][\A p \in Procs :
         RetentionStep(p) =>
            /\ Cardinality(ReleasesAfter) = Min(Cardinality(ListReleases), 5)
            /\ ReleasesAfter \subseteq ListReleases
            /\ \A n \in ReleasesAfter, m \in ListReleases \ ReleasesAfter : m < n
            /\ current'.form # "none" /\ current'.name \in ReleasesAfter]_vars

\* C11 amended: a retention step only removes directories, never one of the
\* N = 5 latest by name and never the active release; when it logs no error
\* it leaves exactly min(k, N) directories, the N latest by name.
C11_RetentionKeepsLatest ==
    [][\A p \in Procs :
         RetentionStep(p) =>
            /\ ReleasesAfter \subseteq ListReleases
            /\ \A n \in ListReleases \ ReleasesAfter :
                  Cardinality({m \in ListReleases : m > n}) >= 5
            /\ current'.form # "none" /\ current'.name \in ReleasesAfter
            /\ "retention" \notin warned'[p] =>
                  /\ Cardinality(ReleasesAfter) = Min(Cardinality(ListReleases), 5)
                  /\ \A n \in ReleasesAfter, m \in ListReleases \ ReleasesAfter : m < n]_vars

\* C11 witness: a retention pass found more than five directories and has
\* removed the oldest without error
C11_Witness ==
    \E p \in Procs :
        /\ pc[p] = "unlock" /\ result[p] = "success" /\ "retention" \notin warned[p]
        /\ \E n \in Names : <<"rel", n>> \in touched[p] /\ n < 0 /\ rel[n] = "absent"
        /\ Cardinality(ListReleases) = 5

\* C12: a .staging directory left behind by a failed deploy no longer exists
\* once a later deploy has run its retention pass and returned success.
C12_StagingSwept ==
    \A p \in Procs :
        Returned(p, "deploy") /\ result[p] = "success" /\ warned[p] = {} =>
            \A n \in ListReleases : ~(IsStaging(n) /\ n < Final(ver[p]))

\* ------------------------------------------------------------ extraction

\* C13: when extracting the archive fails, neither releases/<ver>.staging nor
\* the uploaded archive remains on the remote when the deploy returns.
C13_ExtractFailureCleansUp ==
    \A p \in Procs :
        Returned(p, "deploy") /\ result[p] = "extract_failed" =>
            /\ rel[Staging(ver[p])] = "absent"
            /\ ArchiveOf(ver[p]) \notin files

\* ------------------------------------------------- order within one deploy

PreWire == {"acquire", "fetch", "detect", "build", "prepare", "upload",
            "reassemble", "extract_mkdir", "extract_tar", "finalize", "wire"}

\* the step of p starts the reassembly / switches current / starts hook h
ReassembleStep(p) == pc[p] = "reassemble" /\ pc'[p] # "reassemble"
SwitchStep(p) == cmd[p] = "deploy" /\ Acting(p) /\ current' # current
HookStart(p, h) == hpc[p][h] = "exec" /\ hpc'[p][h] # "exec"

C15_HooksBeforeSwitch ==
    \A p \in Procs :
        cmd[p] = "deploy" /\ ver[p] # 0 /\ current = ActivateTarget(p) =>
            /\ pc[p] \in {"write_state", "retention", "unlock", "done"}
            /\ result[p] \in {"none", "success", "state_write_failed"}

\* --------------------------------------------------- deploy.lock, the record

\* C16: whenever deploy.lock exists, the release directory named in its
\* last_deploy record exists under releases/.
C16_LockNamesExistingRelease ==
    deployLock # NoLock => rel[deployLock.rel] # "absent"

\* the step of p leaves the state-write and retention steps
AfterHooksStep(p) ==
    pc[p] \in {"write_state", "retention"} /\ pc'[p] \notin {"write_state", "retention"}

\* C17: once current has been switched and every hook has passed, a failure
\* of the state-write step or of the retention step does not fail the deploy:
\* it returns success with current on the new release.
C17_LateFailuresNonFatal ==
    [][\A p \in Procs :
         AfterHooksStep(p) =>
            result'[p] = "success" /\ current' = ActivateTarget(p)]_vars

\* ------------------------------------------------------------ early exits

\* the step of p is the fetch of deploy.lock
FetchStep(p) == pc[p] = "fetch" /\ pc'[p] # "fetch"

\* C18: when deploy.lock is absent and initial_deploy is not set the deploy
\* does not go on: it fails with state_missing (or with the error of the
\* existence check itself), and a deploy that failed with state_missing has
\* uploaded nothing, created no release directory and left current as it was.
C18_StateMissing ==
    /\ [][\A p \in Procs :
            FetchStep(p) =>
               /\ deployLock = NoLock /\ ~flags'[p].initialDeploy =>
                     pc'[p] = "unlock" /\ result'[p] \in {"state_missing", "error"}
               /\ result'[p] = "state_missing" =>
                     deployLock = NoLock /\ ~flags'[p].initialDeploy]_vars
    /\ [](\A p \in Procs :
            result[p] = "state_missing" =>
               /\ touched[p] = {<<".versa.lock", 0>>}
               /\ ver[p] = 0 /\ previousLock[p] = NoLock
               /\ current = startCur[p])

\* C18 witness: a deploy without --initial-deploy has found no deploy.lock on
\* a remote that holds an active release, and has returned
C18_Witness ==
    \E p \in Procs :
        /\ Returned(p, "deploy") /\ result[p] = "state_missing"
        /\ deployLock = NoLock /\ Resolve(current) # 0

\* the step of p is the change detection with its two exits
DetectStep(p) == pc[p] = "detect" /\ pc'[p] # "detect"

\* the snapshot of p is the one the fetched deploy.lock records
Unchanged(p) == previousLock[p] # NoLock /\ previousLock[p].fp = src[p]

BuildStep(p) == pc[p] = "build" /\ pc'[p] # "build"

\* C21: a deploy whose build failed on an engine goes no further: the build
\* step changes nothing on the remote and the run returns build_failed,
\* having uploaded nothing and created no directory under releases/, with
\* current and deploy.lock as they were (of the remote it has touched only
\* its lock directory).
C21_BuildFailureAborts ==
    /\ [][\A p \in Procs :
            BuildStep(p) /\ result'[p] = "build_failed" =>
               pc'[p] = "unlock" /\ UNCHANGED remoteVars]_vars
    /\ [](\A p \in Procs :
            result[p] = "build_failed" =>
               /\ pc[p] \in {"unlock", "done"}
               /\ touched[p] = {<<".versa.lock", 0>>}
               /\ ver[p] = 0 /\ files = {}
               /\ current = startCur[p]
               /\ deployLock = previousLock[p])

\* C21 witness: a build has failed on a remote with an active release and a
\* deploy.lock, and the deploy has returned
C21_Witness ==
    \E p \in Procs :
        /\ Returned(p, "deploy") /\ result[p] = "build_failed"
        /\ previousLock[p] # NoLock /\ Resolve(current) = deployLock.rel

\* ------------------------------------------------------- two environments

\* C22: a deploy to one environment that runs while another environment is
\* deployed to from the same machine ends as it would alone: it does not fail
\* on a local file, a success has written its own record to its own remote
\* and activated its own release without a logged error, and it exits with
\* 'no changes' only when its own remote records the snapshot it deploys.
C22_EnvironmentsIndependent ==
    \A p \in Procs :
        pc[p] = "done" /\ cmd[p] = "deploy" =>
            /\ result[p] # "error"
            /\ result[p] = "success" =>
                  /\ envLock[p] = [rel |-> Final(ver[p]), fp |-> src[p]]
                  /\ envCur[p] = Final(ver[p])
                  /\ warned[p] = {}
            /\ result[p] = "no_changes" => envLock[p].fp = src[p]

\* ------------------------------------------------------------------ force

SameAsBefore(f) ==
    ~detPrev.nil /\ f \in DOMAIN detPrev.m /\ detPrev.m[f] = repo[f]

InBuckets(f) == {b \in BucketNames : f \in buckets[b]}

FrontendExts == {".js", ".vue", ".ts", ".jsx", ".tsx", ".css", ".scss", ".less"}

\* C25: every path in a bucket is changed (no previous lock, or the path is
\* not in its hash map, or its hash differs), and every changed path that was
\* hashed is in exactly one bucket, the one its extension selects: .php,
\* .twig, .go, the front-end extensions, and everything else in other.
C25_BucketsHoldTheChanged ==
    /\ \A b \in BucketNames : \A f \in buckets[b] :
          f \in DOMAIN allFileHashes /\ ~SameAsBefore(f)
    /\ dpc = "done" =>
          \A f \in DOMAIN allFileHashes :
             ~SameAsBefore(f) =>
                /\ Cardinality(InBuckets(f)) = 1
                /\ f \in buckets["PHPFiles"] <=> f.ext \in {".php", ".PHP"}
                /\ f \in buckets["TwigFiles"] <=> f.ext = ".twig"
                /\ f \in buckets["GoFiles"] <=> f.ext = ".go"
                /\ f \in buckets["FrontendFiles"] <=> f.ext \in FrontendExts

\* C25 witness: of two hashed files of one snapshot one is unchanged and in
\* no bucket, the other is changed and in its bucket
C25_Witness ==
    /\ dpc = "done"
    /\ \E f, g \in DOMAIN allFileHashes :
          /\ SameAsBefore(f) /\ InBuckets(f) = {}
          /\ ~SameAsBefore(g) /\ InBuckets(g) = {"FrontendFiles"}

HardNames == {".git", "node_modules", "vendor"}

\* f lies below a directory of one of the three names, at some depth
BelowHardName(f) == \E i \in 1..Len(f.dir) : f.dir[i] \in HardNames

\* C26: no file below a directory named .git, node_modules or vendor, at any
\* depth, is hashed or enters the new fingerprint.
C26_HardPrunedAtAnyDepth ==
    \A f \in DOMAIN repo :
        BelowHardName(f) => f \notin filesToHash /\ f \notin DOMAIN allFileHashes

\* critical as the specification lists it: by extension, or by name
CriticalAsListed(f) ==
    \/ ToLower(f.ext) \in {".php", ".twig", ".go", ".mod", ".sum", ".js", ".ts",
                           ".vue", ".jsx", ".tsx", ".css", ".scss", ".sass", ".less"}
    \/ <<f.stem, f.ext>> \in {<<"composer", ".json">>, <<"composer", ".lock">>,
                              <<"package", ".json">>, <<"package-lock", ".json">>,
                              <<"pnpm-lock", ".yaml">>}

\* C27: when detection has returned, a file outside the hard-pruned
\* directories is missing from the new fingerprint if and only if a prefix of
\* its path is in the ignore list and it is not critical.
C27_IgnoredUnlessCritical ==
    dpc = "done" =>
        \A f \in DOMAIN repo :
            ~BelowHardName(f) =>
                (f \notin DOMAIN allFileHashes
                    <=> (\E ig \in ignoredPaths : HasPrefix(RelPath(f), ig))
                        /\ ~CriticalAsListed(f))

\* ------------------------------------------------------------------- C28
\* the chunk files one after the other, in index order
RECURSIVE Concat(_)
Concat(fs) == IF fs = << >> THEN << >> ELSE Head(fs) \o Concat(Tail(fs))

C28_WitnessExactFit ==
    /\ ~cw.err
    /\ Len(chunkFiles) = 1
    /\ Len(written) = cw.chunkSize

\* ------------------------------------------------------------------- C29
\* hook h of the group p is running goes on to its end: its command exits
\* with 0, or exits with an error and runHook starts on what follows
RunsOn(p, h) ==
    /\ hpc[p][h] = "exec"
    /\ hpc'[p][h] \in {"ok", "rb_rm", "hook_failed_no_previous"}

\* C29: once a hook of a parallel group has returned an error, the group is
\* cancelled: a sibling hook that is still running does not go on to its end.
C29_FirstErrorCancelsSiblings ==
    [][\A p \in Procs : \A h, g \in HookIds :
          (h # g /\ pc[p] = "hook_wait" /\ hpc[p][g] \in HookErrors) => ~RunsOn(p, h)]_vars

\* ------------------------------------------------------------------- C30
\* the rollback command p switches current
RollbackSwitch(p) == cmd[p] = "rollback" /\ pc[p] = "r_mv" /\ current' # current

\* C30: whenever the rollback command switches current, the directory
\* current then names does not carry the .staging suffix and is a fully
\* extracted release.
C30_RollbackToFinalisedOnly ==
    [][\A p \in Procs : RollbackSwitch(p) =>
          /\ ~IsStaging(current'.name)
          /\ rel[current'.name] = "full"]_vars

\* ------------------------------------------------------------------- C31
\* C31: when a hook has failed and the automatic rollback has succeeded,
\* current resolves to the release it resolved to when the deploy began,
\* whatever release deploy.lock named.
C31_HookRollbackRestoresServed ==
    \A p \in Procs :
        Returned(p, "deploy") /\ result[p] = "hook_failed" =>
            Resolve(current) = Resolve(startCur[p])

\* ------------------------------------------------------------------- C32
\* C32: in every state the directory current points to exists under
\* releases/.
C32_CurrentNeverDangles ==
    current # NoLink => rel[current.name] # "absent"

\* ------------------------------------------------------------------- C33
\* C33: whenever no deploy and no rollback is running and deploy.lock
\* exists, the release deploy.lock names is the release current resolves to.
C33_LockNamesServed ==
    (\A q \in Procs : pc[q] \in {"idle", "done"}) /\ deployLock # NoLock =>
        deployLock.rel = Resolve(current)

\* ------------------------------------------------------------------- C34
\* m[f] of a Go map: the empty string when f is not a key
HashAt(m, f) == IF f \in DOMAIN m THEN m[f] ELSE ""

\* filepath.Join(d.phpRoot, "composer.json") with phpRoot = ign; the
\* snapshots hold no package.json and no go.mod, whose flags stay false
ComposerPath == File(<<"ign">>, "composer", ".json")

\* cs.ComposerChanged; the lock's ComposerHash is the hash its file map has
\* for the manifest
ComposerChanged ==
    LET h == HashAt(allFileHashes, ComposerPath)
    IN  IF detPrev.nil THEN h # ""
        ELSE h # "" /\ h # HashAt(detPrev.m, ComposerPath)

\* ChangeSet.HasChanges on what Detect returned
DetHasChanges == (\E b \in BucketNames : buckets[b] # {}) \/ ComposerChanged

\* C34: when Detect has returned and the path-to-hash map of the snapshot
\* differs from the file_hashes of the previous lock in any way, a path that
\* is in the lock and no longer in the snapshot included, HasChanges is true.
C34_AnyDifferenceIsAChange ==
    dpc = "done" /\ ~detPrev.nil /\ allFileHashes # detPrev.m => DetHasChanges

\* ------------------------------------------------------------------- C35
\* hook h of the group of p has failed and runHook is in, or through, its
\* rollback
InRollback(p, h) ==
    hpc[p][h] \in {"rb_rm", "rb_ln", "rb_mv", "rb_verify", "hook_failed",
                   "hook_failed_rollback_failed"}

\* C35: when two hooks of one parallel group have failed, the mv of one
\* rollback never fails for want of the temporary link current.tmp, which
\* only the rollback of the other can have taken away.
C35_RollbacksDoNotDisturb ==
    [][\A p \in Procs : \A h, g \in HookIds :
          (h # g /\ pc[p] = "hook_wait" /\ InRollback(p, g) /\ hpc[p][h] = "rb_mv") =>
              hpc'[p][h] # "hook_failed_rollback_failed"]_vars

\* ------------------------------------------------------------------- C36
\* the step of p is its call of AcquireLock
AcquireStep(p) == pc[p] = "acquire" /\ pc'[p] # "acquire"

\* C36: AcquireLock fails, and the deploy returns deploy_in_progress, exactly
\* when the lock directory already exists; in every other case the
\* directory is created and the call succeeds.
C36_FailsIffLockExists ==
    [][\A p \in Procs : AcquireStep(p) =>
          /\ result'[p] = "deploy_in_progress" <=> lockDir
          /\ ~lockDir => lockDir' /\ held'[p]]_vars

\* ------------------------------------------------------------------- C37
\* UploadFilesParallel has returned
UpReturned == upRet \in {"nil", "error"}

\* the transfers in flight
InFlight == {w \in DOMAIN wpc : wpc[w] = "busy"}

\* C37: UploadFilesParallel never has more than concurrency transfers in
\* flight; no chunk is uploaded twice, and when no transfer failed and the
\* call has returned each chunk was uploaded exactly once; when it has
\* returned no worker is running any more; and it has returned an error
\* whenever a transfer failed.
C37_BoundedPool ==
    /\ Cardinality(InFlight) <= upConc
    /\ \A j \in DOMAIN uploaded : uploaded[j] <= 1
    /\ UpReturned => \A w \in DOMAIN wpc : wpc[w] \in {"off", "nil", "err"}
    /\ upRet = "nil" => \A j \in DOMAIN uploaded : uploaded[j] = 1
    /\ UpReturned /\ upFailed # {} => upRet = "error"

\* the call has returned nil after three chunks went through two workers,
\* two of them in flight at a time at some moment before
C37_Witness ==
    /\ upRet = "nil" /\ upConc = 2
    /\ DOMAIN uploaded = 1..3
    /\ \A j \in 1..3 : uploaded[j] = 1

\* the call has returned an error after one transfer failed while the other
\* chunks were uploaded by the remaining workers
C37_WitnessFailure ==
    /\ upRet = "error" /\ upFailed = {1}
    /\ DOMAIN uploaded = 1..3 /\ uploaded[2] = 1 /\ uploaded[3] = 1

\* ------------------------------------------------------------------- C38
\* C38: reusable-path wiring changes a path of the new release only by
\* copying it from the predecessor, and only when the engine's manifest is
\* what it was at the previous deploy, the path is absent from the new
\* release and present in the predecessor; a path that exists in the new
\* release is never changed.
C38_ReuseOnlyWhenUnchanged ==
    [][\A p \in ReusablePaths :
          newRel'[p] # newRel[p] =>
              /\ ru.hash = ru.prevHash
              /\ newRel[p] = "absent" /\ oldRel[p] = "there"
              /\ newRel'[p] = "copied"]_reuseVars

\* ------------------------------------------------------------------- C39
\* the bucket a changed file belongs in
BucketFor(f) ==
    IF f.ext \in {".php", ".PHP"} THEN "PHPFiles"
    ELSE IF f.ext = ".twig" THEN "TwigFiles"
    ELSE IF f.ext = ".go" THEN "GoFiles"
    ELSE IF f.ext \in FrontendExts THEN "FrontendFiles"
    ELSE "OtherFiles"

\* the map and the buckets the snapshot and the previous lock determine
MapDetermined == allFileHashes = repo
BucketsDetermined ==
    \A b \in BucketNames :
        buckets[b] = {f \in filesToHash : ~SameAsBefore(f) /\ BucketFor(f) = b}

PoolTerminated ==
    /\ dpc \in {"done", "error"}
    /\ resultsClosed
    /\ \A w \in 1..numWorkers : hwpc[w] = "done"

\* C39: whatever the number of workers and the interleaving, no send on the
\* jobs or results channel blocks, no file is hashed twice, Detect returns
\* and every goroutine of the pool ends with each enqueued file hashed
\* exactly once; a ChangeSet that is returned holds the path-to-hash map and
\* the bucket membership the snapshot and the previous lock determine; and
\* when a file cannot be read Detect returns an error and no ChangeSet.
C39_PoolDeterministic ==
    /\ [](/\ Len(jobs) <= Cardinality(filesToHash)
          /\ Len(results) <= Cardinality(filesToHash)
          /\ \A f \in filesToHash : hashCount[f] <= 1)
    /\ [](dpc = "done" => unreadable = {} /\ MapDetermined /\ BucketsDetermined)
    /\ [](dpc = "error" => unreadable # {} /\ allFileHashes = << >>)
    /\ <>[](PoolTerminated /\ \A f \in filesToHash : hashCount[f] = 1)
    /\ (unreadable # {} => <>(dpc = "error"))

\* two workers have hashed two changed files of different kinds, and Detect
\* has returned the ChangeSet after the pool ended
C39_Witness ==
    /\ PoolTerminated /\ dpc = "done"
    /\ numWorkers = 2
    /\ Cardinality(filesToHash) = 2
    /\ \A f \in filesToHash : hashCount[f] = 1 /\ ~SameAsBefore(f)
    /\ Cardinality({b \in BucketNames : buckets[b] # {}}) = 2

\* Detect has returned an error for an unreadable file while a worker is
\* still hashing
C39_WitnessError ==
    /\ dpc = "error"
    /\ \E w \in 1..numWorkers : hwpc[w] = "hash"

\* ------------------------------------------------------------------- C40
\* every Dial so far has failed
AllFailed == \A i \in DOMAIN dials : dials[i] # "ok"

\* what holds of the attempts whatever the delays are: at most maxRetries
\* Dials, none after one that succeeded, a Client only after a Dial that
\* succeeded, and ssh_connect_failed only after maxRetries failed Dials
AttemptsAsClaimed ==
    /\ Len(dials) <= maxRetries
    /\ \A i \in 1..(Len(dials) - 1) : dials[i] # "ok"
    /\ connResult = "connected" => dials # << >> /\ dials[Len(dials)] = "ok"
    /\ connResult = "ssh_connect_failed" => Len(dials) = maxRetries /\ AllFailed

\* NewClient has returned after maxRetries failed Dials
Exhausted == npc = "done" /\ Len(dials) = maxRetries /\ AllFailed

====
